---- MODULE Spec2Model ----
(***************************************************************************)
(* Verification model of the frankenstein_generation pipeline core:        *)
(* the excerpt bank and its sampling strategies, the task registry, the    *)
(* task runner and the round-trip validation engine.                       *)
(*                                                                         *)
(* Python values are encoded as follows.                                   *)
(*   Optional[X]      None is <<>>, a value x is <<x>>                     *)
(*   dict             a sequence of <<key, value>> pairs in insertion      *)
(*                    order (Python dicts iterate in insertion order)      *)
(*   list             a sequence                                           *)
(*   set              a set                                                *)
(*   a/b (float)      the pair <<a, b>>, compared by cross-multiplication  *)
(***************************************************************************)
EXTENDS Integers, Sequences, FiniteSets, TLC

VARIABLES bank, sampling, validation, registry, regcall, runcall, rng, earlier, extraction, composition, files, persist, store, query

vars == <<bank, sampling, validation, registry, regcall, runcall, rng, earlier, extraction, composition, files, persist, store, query>>

---------------------------------------------------------------------------
(* Bounds of the explored input space.                                     *)

MaxRefs == 5
StratRefs == 3
MaxLabelList == 2
MaxExcerptsArg == 3
MaxSamples == 1
MaxCount == 2

---------------------------------------------------------------------------
(* Generic helpers.                                                        *)

None == <<>>
Some(x) == <<x>>

Range(s) == {s[i] : i \in 1..Len(s)}

SeqsUpTo(S, n) == UNION {[1..k -> S] : k \in 0..n}

Min(a, b) == IF a <= b THEN a ELSE b

---------------------------------------------------------------------------
(* Domain content supplied by the registered capabilities.                 *)

Labels == {"fraud", "profanity"}
TextIds == <<"t1", "t2", "t3">>
ExcerptTexts == {"x"}

---------------------------------------------------------------------------
(* ExcerptBank: label_index as an insertion-ordered dict.                  *)

EmptyBank == <<>>

list_labels(b) == [i \in 1..Len(b) |-> b[i][1]]

KeyIndex(b, label) == CHOOSE i \in 1..Len(b) : b[i][1] = label

get_excerpts(b, label) ==
    IF label \in Range(list_labels(b)) THEN b[KeyIndex(b, label)][2] ELSE <<>>

add_excerpt(b, label, ref) ==
    IF label \in Range(list_labels(b))
    THEN [b EXCEPT ![KeyIndex(b, label)] = <<label, Append(@[2], ref)>>]
    ELSE Append(b, <<label, <<ref>>>>)

---------------------------------------------------------------------------
(* build_excerpt_bank: one pass over an ExtractionBatch.                   *)
(* A batch is the list of its texts; a text is [text_id, results] with     *)
(* results the dict task name -> result dict of that text.                 *)

ExcerptReference(excerpt, source_text_id, task, label) ==
    [excerpt |-> excerpt, source_text_id |-> source_text_id,
     task |-> task, label |-> label]

\* Python truthiness of a string: the empty string is falsy.
Truthy(str) == str # ""

RECURSIVE ExtractSpans(_, _, _, _)
ExtractSpans(spans, label_key, source_text_id, task) ==
    IF spans = <<>> THEN <<>>
    ELSE LET span == Head(spans)
             label == span[label_key]
             rest == ExtractSpans(Tail(spans), label_key, source_text_id, task)
         IN IF Truthy(label) /\ Truthy(span.excerpt)
            THEN <<<<label, ExcerptReference(span.excerpt, source_text_id, task, label)>>>> \o rest
            ELSE rest

_extract_alerts(result, source_text_id, task) ==
    IF ~result.has_alerts THEN <<>>
    ELSE ExtractSpans(result.alerts, "alert_type", source_text_id, task)

_extract_recommendations(result, source_text_id, task) ==
    IF ~result.has_recommendations THEN <<>>
    ELSE ExtractSpans(result.recommendations, "qualifier", source_text_id, task)

RECURSIVE AddAll(_, _)
AddAll(b, pairs) ==
    IF pairs = <<>> THEN b
    ELSE AddAll(add_excerpt(b, Head(pairs)[1], Head(pairs)[2]), Tail(pairs))

RECURSIVE AddResults(_, _, _)
AddResults(b, text_id, results) ==
    IF results = <<>> THEN b
    ELSE LET task_name == Head(results)[1]
             result == Head(results)[2]
             excerpts == IF task_name = "alerts"
                         THEN _extract_alerts(result, text_id, task_name)
                         ELSE IF task_name = "recommendations"
                         THEN _extract_recommendations(result, text_id, task_name)
                         ELSE <<>>
         IN AddResults(AddAll(b, excerpts), text_id, Tail(results))

RECURSIVE BuildFrom(_, _)
BuildFrom(b, texts) ==
    IF texts = <<>> THEN b
    ELSE BuildFrom(AddResults(b, Head(texts).text_id, Head(texts).results), Tail(texts))

build_excerpt_bank(batch) == BuildFrom(EmptyBank, batch)

\* Extraction batches of the explored input space: texts t1..tn in reader
\* order, each with at most an "alerts" result.
AlertSpans == [alert_type : Labels, excerpt : ExcerptTexts]

\* The number of alert spans in an "alerts" result dict (0 when absent).
SpanCount(results) == IF results = <<>> THEN 0 ELSE Len(results[1][2].alerts)

AlertsResults(maxSpans) ==
    [has_alerts : BOOLEAN, alerts : SeqsUpTo(AlertSpans, maxSpans)]

TextResults(maxSpans) ==
    {<<>>} \cup {<<<<"alerts", r>>>> : r \in AlertsResults(maxSpans)}

\* The batches of the texts TextIds[i..n] that hold at most maxRefs spans.
RECURSIVE BatchesFrom(_, _, _)
BatchesFrom(i, n, maxRefs) ==
    IF i > n THEN {<<>>}
    ELSE UNION {
           {<<[text_id |-> TextIds[i], results |-> rs]>> \o rest :
               rest \in BatchesFrom(i + 1, n, maxRefs - SpanCount(rs))} :
           rs \in TextResults(maxRefs)}

Batches(maxRefs) == UNION {BatchesFrom(1, n, maxRefs) : n \in 0..Len(TextIds)}

---------------------------------------------------------------------------
(* The shared sampling primitive.  random.choice is a free choice among    *)
(* the elements of its argument, so the primitive yields a set of possible *)
(* outcomes.                                                               *)

ExcerptSet(excerpts, source_labels, source_text_ids, target_labels) ==
    [excerpts |-> excerpts, source_labels |-> source_labels,
     source_text_ids |-> source_text_ids, target_labels |-> target_labels]

SampleStart == [excerpts |-> <<>>, source_labels |-> <<>>,
                source_text_ids |-> <<>>, used_sources |-> {}]

\* Mutant: the used-sources filter is dropped.
Available_Unfiltered(b, label, avoid_same_source, used_sources) ==
    get_excerpts(b, label)

Available(b, label, avoid_same_source, used_sources) ==
    LET NotUsed(e) == e.source_text_id \notin used_sources
    IN IF avoid_same_source
       THEN SelectSeq(get_excerpts(b, label), NotUsed)
       ELSE get_excerpts(b, label)

Collect(st, label, excerpt_ref) ==
    [excerpts |-> Append(st.excerpts, excerpt_ref.excerpt),
     source_labels |-> Append(st.source_labels, label),
     source_text_ids |-> Append(st.source_text_ids, excerpt_ref.source_text_id),
     used_sources |-> st.used_sources \cup {excerpt_ref.source_text_id}]

LimitReached(st, max_excerpts) == Len(st.excerpts) >= max_excerpts

RECURSIVE SampleLoop(_, _, _, _, _, _)
SampleLoop(b, labels, max_excerpts, avoid_same_source, i, st) ==
    IF i > Len(labels) THEN {st}
    ELSE LET available == Available(b, labels[i], avoid_same_source, st.used_sources)
         IN IF available = <<>>
            THEN SampleLoop(b, labels, max_excerpts, avoid_same_source, i + 1, st)
            ELSE UNION {
                   LET st2 == Collect(st, labels[i], available[k])
                   IN IF LimitReached(st2, max_excerpts)
                      THEN {st2}
                      ELSE SampleLoop(b, labels, max_excerpts, avoid_same_source, i + 1, st2)
                   : k \in 1..Len(available)}

\* Mutant: the set targets only the labels an excerpt was taken for.
SampleReturn_SourceLabels(st, labels) ==
    IF st.excerpts = <<>> THEN None
    ELSE Some(ExcerptSet(st.excerpts, st.source_labels, st.source_text_ids, st.source_labels))

SampleReturn(st, labels) ==
    IF st.excerpts = <<>> THEN None
    ELSE Some(ExcerptSet(st.excerpts, st.source_labels, st.source_text_ids, labels))

_sample_one_combination(b, labels, max_excerpts, avoid_same_source) ==
    {SampleReturn(st, labels) :
        st \in SampleLoop(b, labels, max_excerpts, avoid_same_source, 1, SampleStart)}

---------------------------------------------------------------------------
(* The three sampling strategies.  Each returns [error, sets]: error is    *)
(* "none" and sets the returned list, or error names the exception that    *)
(* left the call.                                                          *)

Returned(sets) == [error |-> "none", sets |-> sets]
Raised(exc) == [error |-> exc, sets |-> <<>>]

\* `if excerpt_set: excerpt_sets.append(excerpt_set)`
AppendIfSet(excerpt_sets, excerpt_set) ==
    IF excerpt_set = None THEN excerpt_sets ELSE Append(excerpt_sets, excerpt_set[1])

\* random.sample(population, k): any k distinct positions, in any order.
RandomSample(population, k) ==
    {[i \in 1..k |-> population[pos[i]]] :
        pos \in {q \in [1..k -> 1..Len(population)] :
                    \A i, j \in 1..k : i # j => q[i] # q[j]}}

RECURSIVE PerCombination(_, _, _, _, _, _)
PerCombination(b, labels, n, max_excerpts, avoid_same_source, excerpt_sets) ==
    IF n = 0 THEN {excerpt_sets}
    ELSE UNION {
           PerCombination(b, labels, n - 1, max_excerpts, avoid_same_source,
                          AppendIfSet(excerpt_sets, r)) :
           r \in _sample_one_combination(b, labels, max_excerpts, avoid_same_source)}

\* Mutant: no label is ever reported missing.
Missing_Never(b, labels) == {}

\* `missing = set(labels) - available_labels`
Missing(b, labels) == Range(labels) \ Range(list_labels(b))

RECURSIVE CombinationLoop(_, _, _, _, _, _)
CombinationLoop(b, label_combinations, n_per_combination, max_excerpts, avoid_same_source, excerpt_sets) ==
    IF label_combinations = <<>> THEN {excerpt_sets}
    ELSE LET labels == Head(label_combinations)
             missing == Missing(b, labels)
         IN IF missing # {}
            THEN CombinationLoop(b, Tail(label_combinations), n_per_combination,
                                 max_excerpts, avoid_same_source, excerpt_sets)
            ELSE UNION {
                   CombinationLoop(b, Tail(label_combinations), n_per_combination,
                                   max_excerpts, avoid_same_source, sets2) :
                   sets2 \in PerCombination(b, labels, n_per_combination, max_excerpts,
                                            avoid_same_source, excerpt_sets)}

sample_by_label_combination(b, label_combinations, n_per_combination, max_excerpts_per_sample, avoid_same_source) ==
    {Returned(sets) :
        sets \in CombinationLoop(b, label_combinations, n_per_combination,
                                 max_excerpts_per_sample, avoid_same_source, <<>>)}

\* random.randint(a, b) raises ValueError on an empty range.
RECURSIVE RandomLoop(_, _, _, _, _, _, _)
RandomLoop(b, n, min_labels, max_labels, max_excerpts, avoid_same_source, excerpt_sets) ==
    IF n = 0 THEN {Returned(excerpt_sets)}
    ELSE LET available_labels == list_labels(b)
             hi == Min(max_labels, Len(available_labels))
         IN IF min_labels > hi THEN {Raised("ValueError")}
            ELSE UNION {
                   RandomLoop(b, n - 1, min_labels, max_labels, max_excerpts,
                              avoid_same_source, AppendIfSet(excerpt_sets, r)) :
                   r \in UNION {
                           _sample_one_combination(b, labels, max_excerpts, avoid_same_source) :
                           labels \in UNION {RandomSample(available_labels, n_labels) :
                                              n_labels \in min_labels..hi}}}

sample_random_combinations(b, n_samples, min_labels, max_labels, max_excerpts_per_sample, avoid_same_source) ==
    IF list_labels(b) = <<>> THEN {Returned(<<>>)}
    ELSE RandomLoop(b, n_samples, min_labels, max_labels, max_excerpts_per_sample,
                    avoid_same_source, <<>>)

\* Defaults of sample_random_combinations' keyword parameters.
DefaultMinLabels == 1
DefaultMaxLabels == 3
DefaultAvoidSameSource == TRUE

RECURSIVE InsertSorted(_, _)
InsertSorted(s, x) ==
    IF s = <<>> THEN <<x>>
    ELSE IF x <= Head(s) THEN <<x>> \o s
    ELSE <<Head(s)>> \o InsertSorted(Tail(s), x)

RECURSIVE Sorted(_)
Sorted(s) == IF s = <<>> THEN <<>> ELSE InsertSorted(Sorted(Tail(s)), Head(s))

\* label_counts is the dict label -> count; threshold_percentile an integer.
Threshold(label_counts, threshold_percentile) ==
    LET counts == Sorted([i \in 1..Len(label_counts) |-> label_counts[i][2]])
        threshold_idx == (Len(counts) * threshold_percentile) \div 100
    IN IF threshold_idx < Len(counts) THEN counts[threshold_idx + 1]
       ELSE counts[Len(counts)]

RareLabels(b, label_counts, threshold_percentile) ==
    LET threshold == Threshold(label_counts, threshold_percentile)
        IsRare(item) == item[2] <= threshold /\ item[1] \in Range(list_labels(b))
        rare == SelectSeq(label_counts, IsRare)
    IN [i \in 1..Len(rare) |-> rare[i][1]]

\* The labels one iteration of the underrepresented loop may target.
UnderrepresentedLabels(b, rare_labels) ==
    UNION {
      UNION {
        LET other_labels == Range(list_labels(b)) \ Range(labels)
        IN {labels} \cup {Append(labels, other) : other \in other_labels}
        : labels \in RandomSample(rare_labels, n_rare)}
      : n_rare \in 1..Min(2, Len(rare_labels))}

RECURSIVE UnderrepresentedLoop(_, _, _, _, _, _)
UnderrepresentedLoop(b, rare_labels, n, max_excerpts, avoid_same_source, excerpt_sets) ==
    IF n = 0 THEN {Returned(excerpt_sets)}
    ELSE UNION {
           UnderrepresentedLoop(b, rare_labels, n - 1, max_excerpts, avoid_same_source,
                                AppendIfSet(excerpt_sets, r)) :
           r \in UNION {
                   _sample_one_combination(b, labels, max_excerpts, avoid_same_source) :
                   labels \in UnderrepresentedLabels(b, rare_labels)}}

sample_underrepresented_combinations(b, label_counts, n_samples, threshold_percentile, max_excerpts_per_sample, avoid_same_source) ==
    IF label_counts = <<>>
    THEN sample_random_combinations(b, n_samples, DefaultMinLabels, DefaultMaxLabels,
                                    max_excerpts_per_sample, DefaultAvoidSameSource)
    ELSE LET rare_labels == RareLabels(b, label_counts, threshold_percentile)
         IN IF rare_labels = <<>>
            THEN sample_random_combinations(b, n_samples, DefaultMinLabels,
                                            DefaultMaxLabels, max_excerpts_per_sample,
                                            DefaultAvoidSameSource)
            ELSE UnderrepresentedLoop(b, rare_labels, n_samples, max_excerpts_per_sample,
                                      avoid_same_source, <<>>)

---------------------------------------------------------------------------
(* State machine.                                                          *)
(* bank        the ExcerptBank once built (None before)                    *)
(* sampling    the sampling call in progress: its arguments and what it    *)
(*             returns; NoCall when the caller holds the control           *)
(* validation  the latest validation call: its arguments and its result    *)
(* registry    the module-level _registry dicts of BaseTask and BaseFacet  *)
(* regcall     the latest class definition or lookup and its outcome       *)
(* runcall     the run_task call in progress, likewise                     *)
(* rng         the state of the generator behind the random module         *)
(* earlier     a seeded sampling call the caller has kept for comparison   *)
(* extraction  the ExtractionBatch the bank was built from, where kept      *)
(* composition the run_composition call in progress, likewise              *)
(* files       the JSON files written so far, path -> content              *)
(* persist     the latest save or load call and the value the caller holds *)
(* store       the DataStore once constructed (None before)                *)
(* query       the latest call on the DataStore and what it returned       *)

NoCall == [op |-> "none"]

Init ==
    /\ bank = None
    /\ sampling = NoCall
    /\ validation = NoCall
    /\ registry = [task |-> <<>>, facet |-> <<>>]
    /\ regcall = NoCall
    /\ runcall = NoCall
    /\ rng = 0
    /\ earlier = NoCall
    /\ extraction = None
    /\ composition = NoCall
    /\ files = <<>>
    /\ persist = NoCall
    /\ store = None
    /\ query = NoCall

\* bank = build_excerpt_bank(batch)
BuildBank(maxRefs) ==
    /\ bank = None
    /\ \E batch \in Batches(maxRefs) :
          bank' = Some(build_excerpt_bank(batch))
    /\ UNCHANGED <<sampling, validation, registry, regcall, runcall, rng, earlier, extraction, composition, files, persist, store, query>>

LabelLists == SeqsUpTo(Labels, MaxLabelList)

\* _sample_one_combination(bank, labels, max_excerpts, avoid_same_source)
SampleOne ==
    /\ bank # None
    /\ sampling = NoCall
    /\ \E labels \in LabelLists, max_excerpts \in 0..MaxExcerptsArg,
          avoid_same_source \in BOOLEAN :
          \E ret \in _sample_one_combination(bank[1], labels, max_excerpts,
                                              avoid_same_source) :
             sampling' = [op |-> "sample_one", labels |-> labels,
                          max_excerpts |-> max_excerpts,
                          avoid_same_source |-> avoid_same_source,
                          ret |-> ret]
    /\ UNCHANGED <<bank, validation, registry, regcall, runcall, rng, earlier, extraction, composition, files, persist, store, query>>

\* sample_by_label_combination(bank, label_combinations, n_per_combination, ...)
\* explored for calls that draw at most MaxSamples samples in total
SampleTargeted ==
    /\ bank # None
    /\ sampling = NoCall
    /\ \E label_combinations \in SeqsUpTo(LabelLists, MaxSamples),
          n_per_combination \in 0..MaxSamples,
          max_excerpts \in 0..MaxExcerptsArg, avoid_same_source \in BOOLEAN :
          /\ Len(label_combinations) * n_per_combination <= MaxSamples
          /\ \E ret \in sample_by_label_combination(bank[1], label_combinations,
                            n_per_combination, max_excerpts, avoid_same_source) :
                sampling' = [op |-> "targeted",
                             label_combinations |-> label_combinations,
                             n |-> n_per_combination, max_excerpts |-> max_excerpts,
                             avoid_same_source |-> avoid_same_source, ret |-> ret]
    /\ UNCHANGED <<bank, validation, registry, regcall, runcall, rng, earlier, extraction, composition, files, persist, store, query>>

\* sample_random_combinations(bank, n_samples, min_labels, max_labels, ...)
SampleRandom ==
    /\ bank # None
    /\ sampling = NoCall
    /\ \E n_samples \in 0..MaxSamples, min_labels \in 1..MaxLabelList,
          max_labels \in 1..MaxLabelList,
          max_excerpts \in 0..MaxExcerptsArg, avoid_same_source \in BOOLEAN :
          /\ min_labels <= max_labels
          /\ \E ret \in sample_random_combinations(bank[1], n_samples, min_labels,
                            max_labels, max_excerpts, avoid_same_source) :
                sampling' = [op |-> "random", n |-> n_samples,
                             min_labels |-> min_labels, max_labels |-> max_labels,
                             max_excerpts |-> max_excerpts,
                             avoid_same_source |-> avoid_same_source, ret |-> ret]
    /\ UNCHANGED <<bank, validation, registry, regcall, runcall, rng, earlier, extraction, composition, files, persist, store, query>>

\* The label -> count mappings handed to the underrepresented strategy.
LabelCounts ==
    {lc \in SeqsUpTo(Labels \X (1..MaxCount), Cardinality(Labels)) :
        \A i, j \in 1..Len(lc) : i # j => lc[i][1] # lc[j][1]}

Percentiles == {25, 100}

\* sample_underrepresented_combinations(bank, label_counts, n_samples, ...)
SampleUnderrepresented ==
    /\ bank # None
    /\ sampling = NoCall
    /\ \E label_counts \in LabelCounts, n_samples \in 0..MaxSamples,
          threshold_percentile \in Percentiles,
          max_excerpts \in 0..MaxExcerptsArg, avoid_same_source \in BOOLEAN :
          \E ret \in sample_underrepresented_combinations(bank[1], label_counts,
                         n_samples, threshold_percentile, max_excerpts,
                         avoid_same_source) :
             sampling' = [op |-> "underrepresented", label_counts |-> label_counts,
                          n |-> n_samples, threshold_percentile |-> threshold_percentile,
                          max_excerpts |-> max_excerpts,
                          avoid_same_source |-> avoid_same_source, ret |-> ret]
    /\ UNCHANGED <<bank, validation, registry, regcall, runcall, rng, earlier, extraction, composition, files, persist, store, query>>

\* The sampling call returns to its caller.
SampleDone ==
    /\ sampling # NoCall
    /\ sampling' = NoCall
    /\ UNCHANGED <<bank, validation, registry, regcall, runcall, rng, earlier, extraction, composition, files, persist, store, query>>

\* The shared primitive on banks of up to MaxRefs references.
NextSampling ==
    \/ BuildBank(MaxRefs)
    \/ SampleOne
    \/ SampleDone

SpecSampling == Init /\ [][NextSampling]_vars

\* The primitive and the three strategies on banks of up to StratRefs references.
NextStrategies ==
    \/ BuildBank(StratRefs)
    \/ SampleOne
    \/ SampleTargeted
    \/ SampleRandom
    \/ SampleUnderrepresented
    \/ SampleDone

SpecStrategies == Init /\ [][NextStrategies]_vars

---------------------------------------------------------------------------
(* Properties of the sampling engine.                                      *)

Distinct(s) == \A i, j \in 1..Len(s) : i # j => s[i] # s[j]

\* The ExcerptSets handed back by the sampling call in progress.
ReturnedSets ==
    IF sampling.op = "none" THEN {}
    ELSE IF sampling.op = "sample_one"
    THEN (IF sampling.ret = None THEN {} ELSE {sampling.ret[1]})
    ELSE Range(sampling.ret.sets)

SharesSource(b, l1, l2) ==
    \E i \in 1..Len(get_excerpts(b, l1)), j \in 1..Len(get_excerpts(b, l2)) :
        get_excerpts(b, l1)[i].source_text_id = get_excerpts(b, l2)[j].source_text_id

\* C1: when avoid_same_source is true, every ExcerptSet returned by the
\* shared primitive and by each of the three strategies has pairwise
\* distinct source_text_ids.
C1_SourceDiversity ==
    IF sampling.op = "none" THEN TRUE
    ELSE sampling.avoid_same_source =>
            \A es \in ReturnedSets : Distinct(es.source_text_ids)

\* C1 witness: a strategy, asked to avoid same sources, returned a set of
\* two excerpts although the two labels share a source text in the bank.
C1_Witness ==
    /\ sampling.op \in {"targeted", "random", "underrepresented"}
    /\ sampling.avoid_same_source
    /\ Len(sampling.ret.sets) = 1
    /\ \A es \in ReturnedSets :
          /\ Len(es.source_text_ids) = 2
          /\ SharesSource(bank[1], es.source_labels[1], es.source_labels[2])

\* The walk the primitive is specified to take, stated over its result:
\* k excerpts taken at the label positions pos[1] < ... < pos[k].
Eligible(b, label, avoid_same_source, used) ==
    {i \in 1..Len(get_excerpts(b, label)) :
        avoid_same_source => get_excerpts(b, label)[i].source_text_id \notin used}

IsWalk(b, labels, max_excerpts, avoid_same_source, es, pos) ==
    LET k == Len(es.excerpts)
        UsedBefore(i) == {es.source_text_ids[m] : m \in {n \in 1..k : pos[n] < i}}
        stop == IF k > 0 /\ k >= max_excerpts THEN pos[k] ELSE Len(labels) + 1
    IN /\ \A j \in 1..k :
            /\ j > 1 => pos[j - 1] < pos[j]
            /\ es.source_labels[j] = labels[pos[j]]
            /\ \E r \in Eligible(b, labels[pos[j]], avoid_same_source, UsedBefore(pos[j])) :
                  /\ get_excerpts(b, labels[pos[j]])[r].excerpt = es.excerpts[j]
                  /\ get_excerpts(b, labels[pos[j]])[r].source_text_id = es.source_text_ids[j]
       /\ \A i \in 1..Len(labels) :
            (i < stop /\ i \notin {pos[j] : j \in 1..k}) =>
                Eligible(b, labels[i], avoid_same_source, UsedBefore(i)) = {}

C2_EqualLengths ==
    sampling.op = "sample_one" /\ sampling.ret # None =>
        /\ Len(sampling.ret[1].excerpts) = Len(sampling.ret[1].source_labels)
        /\ Len(sampling.ret[1].excerpts) = Len(sampling.ret[1].source_text_ids)

C2_AtMostMax ==
    sampling.op = "sample_one" /\ sampling.ret # None =>
        Len(sampling.ret[1].excerpts) <= sampling.max_excerpts

C2_WalksLabels ==
    sampling.op = "sample_one" /\ sampling.ret # None =>
        LET es == sampling.ret[1]
        IN \E pos \in [1..Len(es.excerpts) -> 1..Len(sampling.labels)] :
              IsWalk(bank[1], sampling.labels, sampling.max_excerpts,
                     sampling.avoid_same_source, es, pos)

\* null exactly when no excerpt could be collected
C2_NullIffNothing ==
    sampling.op = "sample_one" =>
        (sampling.ret = None <=>
            \/ sampling.max_excerpts <= 0
            \/ \A i \in 1..Len(sampling.labels) :
                  get_excerpts(bank[1], sampling.labels[i]) = <<>>)

SourcesOf(b, label) ==
    {get_excerpts(b, label)[i].source_text_id : i \in 1..Len(get_excerpts(b, label))}

\* fraud: 3 references from 3 sources; profanity: 2 references from 2 sources
ScenarioBank(b) ==
    /\ Range(list_labels(b)) = {"fraud", "profanity"}
    /\ Len(get_excerpts(b, "fraud")) = 3 /\ Cardinality(SourcesOf(b, "fraud")) = 3
    /\ Len(get_excerpts(b, "profanity")) = 2 /\ Cardinality(SourcesOf(b, "profanity")) = 2

ScenarioCall ==
    /\ sampling.op = "sample_one"
    /\ ScenarioBank(bank[1])
    /\ sampling.labels = <<"fraud", "profanity">>
    /\ sampling.max_excerpts = 3
    /\ sampling.avoid_same_source

C2_Scenario ==
    ScenarioCall =>
        /\ sampling.ret # None
        /\ sampling.ret[1].source_labels = <<"fraud", "profanity">>
        /\ Len(sampling.ret[1].excerpts) = 2

\* C2: the primitive walks the labels in order, takes one excerpt per label
\* that has an eligible reference at its turn, skips the others, never holds
\* more than max_excerpts excerpts, keeps the three lists equally long,
\* returns null exactly when nothing was collected, and returns two excerpts
\* in the fraud/profanity scenario.
C2_SampleOneContract ==
    /\ C2_EqualLengths
    /\ C2_AtMostMax
    /\ C2_WalksLabels
    /\ C2_NullIffNothing
    /\ C2_Scenario

---------------------------------------------------------------------------
(* Round-trip validation: run_validation and the Validator of the          *)
(* synth_data_pipeline package.                                            *)

MaxArtifacts == 1
MaxTargets == 2
MaxAlerts == 1

\* Mutant: the comparison with the threshold is strict.
GE_Strict(a, b) == a[1] * b[2] > b[1] * a[2]

\* a >= b for quotients a = <<a1, a2>>, b = <<b1, b2>> with a2, b2 > 0
GE(a, b) == a[1] * b[2] >= b[1] * a[2]
AddR(a, b) == <<a[1] * b[2] + b[1] * a[2], a[2] * b[2]>>
MulR(a, b) == <<a[1] * b[1], a[2] * b[2]>>
DivR(a, b) == <<a[1] * b[2], a[2] * b[1]>>

Thresholds == {<<1, 2>>, <<3, 5>>, <<1, 1>>}

DefaultTasks == <<"alerts", "recommendations">>

\* The labels of the spans whose label field is truthy.
SpanLabels(spans, label_key) ==
    {spans[i][label_key] : i \in {j \in 1..Len(spans) : Truthy(spans[j][label_key])}}

_extract_labels_from_result(task_name, result) ==
    IF task_name = "alerts"
    THEN (IF result.has_alerts THEN SpanLabels(result.alerts, "alert_type") ELSE {})
    ELSE IF task_name = "recommendations"
    THEN (IF result.has_recommendations
          THEN SpanLabels(result.recommendations, "qualifier") ELSE {})
    ELSE {}

\* Mutant: the missed labels are taken from the wrong side.
Compare_Swapped(expected, detected) ==
    [matched |-> expected \cap detected,
     missed |-> detected \ expected,
     extra |-> detected \ expected]

\* matched, missed and extra as both validation implementations compute them
Compare(expected, detected) ==
    [matched |-> expected \cap detected,
     missed |-> expected \ detected,
     extra |-> detected \ expected]

LabelMatch(expected, detected, matched, missed, extra, match_ratio) ==
    [expected |-> expected, detected |-> detected, matched |-> matched,
     missed |-> missed, extra |-> extra, match_ratio |-> match_ratio]

\* The tasks, by position in the task list, with a non-null result for text i.
Answered(all_results, i) ==
    {k \in 1..Len(all_results) : all_results[k][i] # None}

\* One pass of the loop over synthetic_batch.texts, for the text at position i.
ValidatedText(synth_text, tasks, all_results, i, match_threshold) ==
    LET validation_results ==
            [k \in 1..Len(tasks) |-> <<tasks[k], all_results[k][i]>>]
        detected_labels ==
            UNION {_extract_labels_from_result(tasks[k], all_results[k][i][1]) :
                       k \in Answered(all_results, i)}
        expected == Range(synth_text.target_labels)
        matched == Compare(expected, detected_labels).matched
        missed == Compare(expected, detected_labels).missed
        extra == Compare(expected, detected_labels).extra
        match_ratio == IF expected # {}
                       THEN <<Cardinality(matched), Cardinality(expected)>>
                       ELSE <<1, 1>>
    IN [text_id |-> synth_text.text_id,
        target_labels |-> synth_text.target_labels,
        validation_results |-> SelectSeq(validation_results, LAMBDA kv : kv[2] # None),
        label_match |-> LabelMatch(expected, detected_labels, matched, missed,
                                   extra, match_ratio),
        is_valid |-> GE(match_ratio, match_threshold)]

RECURSIVE SumRatios(_)
SumRatios(validated_texts) ==
    IF validated_texts = <<>> THEN <<0, 1>>
    ELSE AddR(Head(validated_texts).label_match.match_ratio,
              SumRatios(Tail(validated_texts)))

\* Mutant: every record is counted as valid.
ValidCount_All(validated_texts) == Len(validated_texts)

\* `valid_count = sum(1 for t in validated_texts if t.is_valid)`
ValidCount(validated_texts) ==
    Cardinality({i \in 1..Len(validated_texts) : validated_texts[i].is_valid})

\* all_results[k] is the list run_task returned for tasks[k]
run_validation(synthetic_batch, tasks_arg, all_results, match_threshold) ==
    LET tasks == IF tasks_arg = None \/ tasks_arg[1] = <<>>
                 THEN DefaultTasks ELSE tasks_arg[1]
        validated_texts ==
            [i \in 1..Len(synthetic_batch) |->
                ValidatedText(synthetic_batch[i], tasks, all_results, i,
                              match_threshold)]
        total == Len(validated_texts)
        valid_count == ValidCount(validated_texts)
    IN [texts |-> validated_texts,
        tasks_used |-> tasks,
        total_texts |-> total,
        valid_count |-> valid_count,
        validation_rate |-> IF total > 0 THEN <<valid_count, total>> ELSE <<0, 1>>,
        avg_match_ratio |-> IF total > 0
                            THEN DivR(SumRatios(validated_texts), <<total, 1>>)
                            ELSE <<0, 1>>]

\* AlertsOutput.get_labels: the alert types of all spans, whatever has_alerts
get_labels(result) ==
    IF result.alerts # <<>>
    THEN {result.alerts[i].alert_type : i \in 1..Len(result.alerts)}
    ELSE {}

_default_label_extractor(result) ==
    IF result = None THEN {} ELSE get_labels(result[1])

\* A label_extractor a caller may supply: the labels of positive results only.
positive_only(result) ==
    IF result # None /\ result[1].has_alerts THEN get_labels(result[1]) ELSE {}

LabelExtractors == {None, Some("positive_only")}

ValidationResult(target_labels, predicted_labels, matched, missed, extra, precision, recall, f1, passed) ==
    [target_labels |-> target_labels, predicted_labels |-> predicted_labels,
     matched_labels |-> matched, missed_labels |-> missed, extra_labels |-> extra,
     precision |-> precision, recall |-> recall, f1 |-> f1, passed |-> passed]

\* The body shared by validate_single and by one pass of validate_batch's loop.
ValidateOne(generated, extraction_result, label_extractor, match_threshold) ==
    LET target_labels == Range(generated.target_labels)
        predicted_labels == IF label_extractor # None
                            THEN positive_only(extraction_result)
                            ELSE _default_label_extractor(extraction_result)
        matched == Compare(target_labels, predicted_labels).matched
        missed == Compare(target_labels, predicted_labels).missed
        extra == Compare(target_labels, predicted_labels).extra
        precision == IF predicted_labels # {}
                     THEN <<Cardinality(matched), Cardinality(predicted_labels)>>
                     ELSE <<0, 1>>
        recall == IF target_labels # {}
                  THEN <<Cardinality(matched), Cardinality(target_labels)>>
                  ELSE <<0, 1>>
        f1 == IF AddR(precision, recall)[1] > 0
              THEN DivR(MulR(<<2, 1>>, MulR(precision, recall)), AddR(precision, recall))
              ELSE <<0, 1>>
    IN ValidationResult(target_labels, predicted_labels, matched, missed, extra,
                        precision, recall, f1, GE(recall, match_threshold))

validate_single(generated, extraction_result, label_extractor, match_threshold) ==
    ValidateOne(generated, extraction_result, label_extractor, match_threshold)

\* zip(generated_comments, extraction_results) stops at the shorter list
validate_batch(generated_comments, extraction_results, label_extractor, match_threshold) ==
    [i \in 1..Min(Len(generated_comments), Len(extraction_results)) |->
        ValidateOne(generated_comments[i], extraction_results[i], label_extractor,
                    match_threshold)]

---------------------------------------------------------------------------
(* Validation calls.  The re-extraction results are what the processor     *)
(* backend answers: any result of the capability's schema, or null.        *)

TargetLists == SeqsUpTo(Labels, MaxTargets)

\* synthetic_batch.texts: the artifacts with ids in generation order
SyntheticTexts ==
    UNION {[1..n -> [text_id : 1..MaxArtifacts, target_labels : TargetLists]] :
               n \in 0..MaxArtifacts}

SyntheticBatches ==
    {b \in SyntheticTexts : \A i \in 1..Len(b) : b[i].text_id = i}

\* A capability registered next to the built-in ones, with the same result
\* layout: a positive flag and a list of labelled excerpts.
ModerationResults ==
    [has_violations : BOOLEAN,
     violations : {<<[violation |-> "profanity", excerpt |-> "x"]>>}]

RecommendationsResults ==
    [has_recommendations : BOOLEAN,
     recommendations : {<<[qualifier |-> "add_or_increase", excerpt |-> "x"]>>}]

\* What the backend may answer for one text; its null answers are explored
\* on the alerts capability.
TaskOutcomes(task_name) ==
    IF task_name = "alerts"
    THEN {None} \cup {Some(r) : r \in AlertsResults(MaxAlerts)}
    ELSE IF task_name = "recommendations"
    THEN {Some(r) : r \in RecommendationsResults}
    ELSE {Some(r) : r \in ModerationResults}

TaskLists == {None, Some(<<"alerts">>), Some(<<"moderation">>),
              Some(<<"alerts", "moderation">>)}

\* What run_task returns for each task of the list on n inputs.
RECURSIVE AllResults(_, _)
AllResults(tasks, n) ==
    IF tasks = <<>> THEN {<<>>}
    ELSE {<<r>> \o rest : r \in [1..n -> TaskOutcomes(Head(tasks))],
                           rest \in AllResults(Tail(tasks), n)}

\* run_validation(synthetic_batch, processor, tasks, match_threshold=...)
RunValidation ==
    /\ validation = NoCall
    /\ \E synthetic_batch \in SyntheticBatches, tasks_arg \in TaskLists,
          match_threshold \in Thresholds :
          \E all_results \in AllResults(IF tasks_arg = None THEN DefaultTasks
                                        ELSE tasks_arg[1], Len(synthetic_batch)) :
             validation' = [op |-> "run_validation",
                            synthetic_batch |-> synthetic_batch,
                            tasks |-> tasks_arg, all_results |-> all_results,
                            match_threshold |-> match_threshold,
                            ret |-> run_validation(synthetic_batch, tasks_arg,
                                                   all_results, match_threshold)]
    /\ UNCHANGED <<bank, sampling, registry, regcall, runcall, rng, earlier, extraction, composition, files, persist, store, query>>

ExtractionResults == {None} \cup {Some(r) : r \in AlertsResults(MaxAlerts)}

GeneratedOutputs == [target_labels : TargetLists]

\* Validator(extractor, match_threshold).validate_single(generated, label_extractor)
ValidateSingle ==
    /\ validation = NoCall
    /\ \E generated \in GeneratedOutputs, extraction_result \in ExtractionResults,
          label_extractor \in LabelExtractors, match_threshold \in Thresholds :
          validation' = [op |-> "validate_single", generated |-> generated,
                         extraction_result |-> extraction_result,
                         label_extractor |-> label_extractor,
                         match_threshold |-> match_threshold,
                         ret |-> validate_single(generated, extraction_result,
                                                 label_extractor, match_threshold)]
    /\ UNCHANGED <<bank, sampling, registry, regcall, runcall, rng, earlier, extraction, composition, files, persist, store, query>>

\* Validator(extractor, match_threshold).validate_batch(generated_comments, label_extractor)
ValidateBatch ==
    /\ validation = NoCall
    /\ \E generated_comments \in SeqsUpTo(GeneratedOutputs, MaxArtifacts),
          label_extractor \in LabelExtractors, match_threshold \in Thresholds :
          \E extraction_results \in [1..Len(generated_comments) -> ExtractionResults] :
             validation' = [op |-> "validate_batch",
                            generated_comments |-> generated_comments,
                            extraction_results |-> extraction_results,
                            label_extractor |-> label_extractor,
                            match_threshold |-> match_threshold,
                            ret |-> validate_batch(generated_comments,
                                        extraction_results, label_extractor,
                                        match_threshold)]
    /\ UNCHANGED <<bank, sampling, registry, regcall, runcall, rng, earlier, extraction, composition, files, persist, store, query>>

NextValidation ==
    \/ RunValidation
    \/ ValidateSingle
    \/ ValidateBatch

SpecValidation == Init /\ [][NextValidation]_vars

---------------------------------------------------------------------------
(* Properties of the validation engine.                                    *)

\* The per-artifact outcomes of the validation call in progress, in a
\* common form for both implementations.
Outcome(targets, expected, detected, matched, missed, extra, ratio, passed) ==
    [targets |-> targets, expected |-> expected, detected |-> detected,
     matched |-> matched, missed |-> missed, extra |-> extra,
     ratio |-> ratio, passed |-> passed]

OutcomeOfText(vt) ==
    Outcome(Range(vt.target_labels), vt.label_match.expected,
            vt.label_match.detected, vt.label_match.matched,
            vt.label_match.missed, vt.label_match.extra,
            vt.label_match.match_ratio, vt.is_valid)

OutcomeOfResult(generated, vr) ==
    Outcome(Range(generated.target_labels), vr.target_labels, vr.predicted_labels,
            vr.matched_labels, vr.missed_labels, vr.extra_labels, vr.recall,
            vr.passed)

RunnerOutcomes ==
    IF validation.op = "run_validation"
    THEN {OutcomeOfText(validation.ret.texts[i]) : i \in 1..Len(validation.ret.texts)}
    ELSE {}

ValidatorOutcomes ==
    IF validation.op = "validate_single"
    THEN {OutcomeOfResult(validation.generated, validation.ret)}
    ELSE IF validation.op = "validate_batch"
    THEN {OutcomeOfResult(validation.generated_comments[i], validation.ret[i]) :
              i \in 1..Len(validation.ret)}
    ELSE {}

ArtifactOutcomes == RunnerOutcomes \cup ValidatorOutcomes

\* C3: for every validated artifact of run_validation and of the Validator,
\* matched and missed partition the expected set, matched and extra make up
\* the detected set, and the ratio lies between 0 and 1.
C3_LabelMatchIdentities ==
    \A o \in ArtifactOutcomes :
        /\ o.expected = o.targets
        /\ o.matched \cup o.missed = o.expected
        /\ o.matched \cup o.extra = o.detected
        /\ o.matched \cap o.missed = {}
        /\ o.ratio[2] > 0
        /\ 0 <= o.ratio[1]
        /\ o.ratio[1] <= o.ratio[2]

\* C3 witness: an artifact with a matched, a missed and an extra label.
C3_Witness ==
    \E o \in RunnerOutcomes :
        o.matched # {} /\ o.missed # {} /\ o.extra # {}

\* C4: in run_validation an artifact with a non-empty expected set has ratio
\* |matched| / |expected| and is valid exactly when ratio >= threshold;
\* expected {fraud, profanity} with detected {fraud} gives ratio 1/2, valid
\* at threshold 0.5 and not at 0.6.
C4_RatioAndThreshold ==
    \A o \in RunnerOutcomes :
        o.expected # {} =>
            /\ o.ratio[1] * Cardinality(o.expected) = Cardinality(o.matched) * o.ratio[2]
            /\ o.passed <=>
                  o.ratio[1] * validation.match_threshold[2]
                      >= validation.match_threshold[1] * o.ratio[2]
            /\ (o.expected = {"fraud", "profanity"} /\ o.detected = {"fraud"}) =>
                  /\ o.matched = {"fraud"}
                  /\ o.missed = {"profanity"}
                  /\ o.extra = {}
                  /\ o.ratio[1] * 2 = o.ratio[2]
                  /\ validation.match_threshold = <<1, 2>> => o.passed
                  /\ validation.match_threshold = <<3, 5>> => ~o.passed

\* C4 witness: the artifact of the example, validated at threshold 0.5.
C4_Witness ==
    /\ validation.op = "run_validation"
    /\ validation.match_threshold = <<1, 2>>
    /\ \E o \in RunnerOutcomes :
          o.expected = {"fraud", "profanity"} /\ o.detected = {"fraud"} /\ o.passed

\* C5: an artifact without target labels has ratio (recall) 1.0 whatever is
\* detected, in run_validation and in the Validator alike, and passes at
\* every threshold <= 1.
C5_EmptyExpectedPasses ==
    validation.op # "none" =>
        \A o \in ArtifactOutcomes :
            o.expected = {} =>
                /\ o.ratio[1] = o.ratio[2]
                /\ validation.match_threshold[1] <= validation.match_threshold[2]
                      => o.passed

\* The positive-label flag and the excerpt labels of a capability's result.
PositiveFlag(task_name, result) ==
    IF task_name = "alerts" THEN result.has_alerts
    ELSE IF task_name = "recommendations" THEN result.has_recommendations
    ELSE result.has_violations

ExcerptLabels(task_name, result) ==
    IF task_name = "alerts" THEN SpanLabels(result.alerts, "alert_type")
    ELSE IF task_name = "recommendations"
    THEN SpanLabels(result.recommendations, "qualifier")
    ELSE SpanLabels(result.violations, "violation")

\* C6: the detected set of an artifact is the union, over all listed
\* capabilities with a non-null result whose positive flag is true, of the
\* labels of that result's excerpts, whatever the capabilities are named.
C6_DetectedIsUnion ==
    validation.op = "run_validation" =>
        \A i \in 1..Len(validation.ret.texts) :
            LET tasks == validation.ret.tasks_used
                result(k) == validation.all_results[k][i]
            IN validation.ret.texts[i].label_match.detected =
                  UNION {ExcerptLabels(tasks[k], result(k)[1]) :
                            k \in {j \in 1..Len(tasks) :
                                      /\ result(j) # None
                                      /\ PositiveFlag(tasks[j], result(j)[1])}}

---------------------------------------------------------------------------
(* The task registry (pipeline/tasks/base.py) and the facet registry       *)
(* (pipeline/capabilities/classification/registry.py).  A class is         *)
(* [id, attrs]: id stands for the identity of the class object, attrs for  *)
(* its class attributes after inheritance.                                 *)

MaxClasses == 3

Kinds == {"task", "facet"}

Attrs(kind) ==
    IF kind = "task"
    THEN {"name", "input_model", "output_model", "prompt_fn", "default_config"}
    ELSE {"name", "output_model", "prompt_fn"}

\* The attributes assigned by the class bodies that are explored.
BodyAttrs(kind) == Attrs(kind) \ {"default_config"}

\* BaseTask and BaseFacet: every attribute is None.
BaseClass(kind) == [id |-> 0, attrs |-> [a \in Attrs(kind) |-> None]]

\* Mutant: the prompt function is not required.
RequiredAttrs_NoPrompt(kind) ==
    IF kind = "task" THEN <<"input_model", "output_model">>
    ELSE <<"output_model">>

\* The attributes __init_subclass__ requires, in the order it tests them.
RequiredAttrs(kind) ==
    IF kind = "task" THEN <<"input_model", "output_model", "prompt_fn">>
    ELSE <<"output_model", "prompt_fn">>

Keys(d) == [i \in 1..Len(d) |-> d[i][1]]

Lookup(d, key) == d[CHOOSE i \in 1..Len(d) : d[i][1] = key][2]

\* d[key] = value: a present key keeps its position, a new key goes last
SetItem(d, key, value) ==
    IF key \in Range(Keys(d))
    THEN [i \in 1..Len(d) |-> IF d[i][1] = key THEN <<key, value>> ELSE d[i]]
    ELSE Append(d, <<key, value>>)

\* __init_subclass__(cls) on the registry dict of its kind: the dict after
\* the call and the exception raised (None when it returns)
__init_subclass__(kind, reg, cls) ==
    LET missing == SelectSeq(RequiredAttrs(kind), LAMBDA a : cls.attrs[a] = None)
    IN IF cls.attrs.name = None
       THEN [registry |-> reg, error |-> None]
       ELSE IF missing # <<>>
       THEN [registry |-> reg,
             error |-> Some([type |-> "ValueError", attr |-> Head(missing)])]
       ELSE [registry |-> SetItem(reg, cls.attrs.name[1], cls), error |-> None]

\* get_task(name) / get_facet(name)
get_task(reg, name) ==
    IF name \notin Range(Keys(reg))
    THEN [ret |-> None, error |-> Some([type |-> "KeyError", available |-> Keys(reg)])]
    ELSE [ret |-> Some(Lookup(reg, name)), error |-> None]

---------------------------------------------------------------------------
(* Class definitions and lookups.                                          *)

Names(kind) == IF kind = "task" THEN {"alerts", "composition"} ELSE {"sentiment"}

\* The values a class body assigns to an attribute.
AttrValues(kind, attr) ==
    IF attr = "name" THEN {Some(n) : n \in Names(kind)}
    ELSE IF attr = "input_model" THEN {Some("TextInput"), Some("ExcerptSet")}
    ELSE IF attr = "output_model" THEN {None, Some("OutputModel")}
    ELSE {Some("prompt_fn")}

\* The attribute assignments in the body of a class statement.
ClassBodies(kind) ==
    UNION {{b \in [A -> UNION {AttrValues(kind, a) : a \in A}] :
               \A a \in A : b[a] \in AttrValues(kind, a)} :
           A \in SUBSET BodyAttrs(kind)}

Registered(kind) == {registry[kind][i][2] : i \in 1..Len(registry[kind])}

UsedIds ==
    {c.id : c \in Registered("task") \cup Registered("facet")}
        \cup (IF regcall.op = "define" THEN {regcall.cls.id} ELSE {})

FreeIds == (1..MaxClasses) \ UsedIds

\* class C(parent): body
DefineSubclass ==
    /\ FreeIds # {}
    /\ \E kind \in Kinds :
          \E parent \in {BaseClass(kind)} \cup Registered(kind),
             body \in ClassBodies(kind) :
             LET cls == [id |-> CHOOSE n \in FreeIds : \A m \in FreeIds : n <= m,
                         attrs |-> [a \in Attrs(kind) |->
                                       IF a \in DOMAIN body THEN body[a]
                                       ELSE parent.attrs[a]]]
                 done == __init_subclass__(kind, registry[kind], cls)
             IN /\ registry' = [registry EXCEPT ![kind] = done.registry]
                /\ regcall' = [op |-> "define", kind |-> kind, cls |-> cls,
                               error |-> done.error]
    /\ UNCHANGED <<bank, sampling, validation, runcall, rng, earlier, extraction, composition, files, persist, store, query>>

\* get_task(name) / get_facet(name)
GetTask ==
    /\ \E kind \in Kinds, name \in Names("task") \cup Names("facet") :
          regcall' = [op |-> "get", kind |-> kind, name |-> name,
                      ret |-> get_task(registry[kind], name).ret,
                      error |-> get_task(registry[kind], name).error]
    /\ UNCHANGED <<bank, sampling, validation, registry, runcall, rng, earlier, extraction, composition, files, persist, store, query>>

NextRegistry ==
    \/ DefineSubclass
    \/ GetTask

SpecRegistry == Init /\ [][NextRegistry]_vars

---------------------------------------------------------------------------
(* Properties of the registries.                                           *)

\* This step defines a class.
DefineStep == regcall' # regcall /\ regcall'.op = "define"

\* C8: defining a class under a name already present in its registry fails
\* with a duplicate error and leaves the registry unchanged, so that a name
\* keeps resolving to the class first registered under it.
C8_DuplicateRejected ==
    [][(/\ DefineStep
        /\ regcall'.cls.attrs.name # None
        /\ regcall'.cls.attrs.name[1] \in Range(Keys(registry[regcall'.kind])))
          => /\ regcall'.error # None
             /\ registry' = registry]_vars

WellFormed(reg) ==
    \A i \in 1..Len(reg) :
        /\ reg[i][2].attrs.name = Some(reg[i][1])
        /\ reg[i][2].attrs.input_model # None
        /\ reg[i][2].attrs.output_model # None
        /\ reg[i][2].attrs.prompt_fn # None
        /\ \A j \in 1..Len(reg) : reg[j][1] = reg[i][1] => j = i

Lacking(cls) ==
    \/ cls.attrs.input_model = None
    \/ cls.attrs.output_model = None
    \/ cls.attrs.prompt_fn = None

\* C9: every name of the task registry maps to a class with non-null
\* input_model, output_model and prompt_fn, which get_task returns; defining
\* a named task that lacks one of the three fails and adds nothing; get_task
\* of an unregistered name fails listing the registered names and leaves the
\* registry unchanged.
C9_RegistryContract ==
    [][/\ WellFormed(registry'.task)
       /\ (DefineStep /\ regcall'.kind = "task" /\ regcall'.cls.attrs.name # None
               /\ Lacking(regcall'.cls))
             => regcall'.error # None /\ registry' = registry
       /\ (regcall'.op = "get" /\ regcall'.kind = "task")
             => /\ registry' = registry
                /\ \A i \in 1..Len(registry'.task) :
                      registry'.task[i][1] = regcall'.name
                          => /\ regcall'.error = None
                             /\ regcall'.ret = Some(registry'.task[i][2])
                /\ (\A i \in 1..Len(registry'.task) :
                        registry'.task[i][1] # regcall'.name)
                      => /\ regcall'.ret = None
                         /\ regcall'.error # None
                         /\ regcall'.error[1].type = "KeyError"
                         /\ regcall'.error[1].available
                               = [i \in 1..Len(registry'.task) |-> registry'.task[i][1]]
      ]_vars

\* C9 witness: with two tasks registered, the definition of a named task
\* without prompt_fn has failed.
C9_Witness ==
    /\ Len(registry.task) = 2
    /\ regcall.op = "define"
    /\ regcall.kind = "task"
    /\ regcall.cls.attrs.name # None
    /\ regcall.cls.attrs.input_model # None
    /\ regcall.cls.attrs.output_model # None
    /\ regcall.cls.attrs.prompt_fn = None
    /\ regcall.error # None

---------------------------------------------------------------------------
(* The task runner (pipeline/tasks/runner.py).  A Python value handed to   *)
(* run_task is [type, data]: the name of its type and, for a mapping or a  *)
(* pydantic model, its keys or fields with their values.                   *)

MaxInputs == 2

ModelFields(cls) ==
    IF cls = "TextInput" THEN {"text", "text_id", "metadata"}
    ELSE IF cls = "ExcerptSet"
    THEN {"excerpts", "source_labels", "source_text_ids", "target_labels"}
    ELSE IF cls = "SyntheticText"
    THEN {"text_id", "text", "source_excerpts", "source_labels",
          "source_text_ids", "target_labels", "coherence_notes", "created_at"}
    ELSE {"source_text", "reference_text", "text_id", "metadata"}

\* The fields declared without a default.
RequiredFields(cls) ==
    IF cls = "TextInput" THEN {"text"}
    ELSE IF cls = "ExcerptSet" THEN {"excerpts", "source_labels"}
    ELSE IF cls = "SyntheticText"
    THEN {"text_id", "text", "source_excerpts", "source_labels",
          "source_text_ids", "target_labels"}
    ELSE {"source_text", "reference_text"}

ModelClasses == {"TextInput", "ExcerptSet", "SyntheticText", "TextPairInput"}

\* input_model(**d): unknown keys are ignored, absent optional fields take
\* their default (None, an empty list or an empty dict: all <<>>), an absent
\* required field raises pydantic's ValidationError for input_model
Construct(input_model, d) ==
    IF RequiredFields(input_model) \subseteq DOMAIN d
    THEN [value |-> Some([type |-> input_model,
                          data |-> [f \in ModelFields(input_model) |->
                                       IF f \in DOMAIN d THEN d[f] ELSE <<>>]]),
          error |-> None]
    ELSE [value |-> None,
          error |-> Some([type |-> "ValidationError", expected |-> input_model])]

InputTypeError(input_model) ==
    [value |-> None, error |-> Some([type |-> "TypeError", expected |-> input_model])]

\* Mutant: a bare string is wrapped whatever the task's input_model is.
ValidateInput_WrapAlways(input_model, inp) ==
    IF inp.type = "str"
    THEN Construct("TextInput", [text |-> inp.data.text])
    ELSE IF inp.type = "dict" THEN Construct(input_model, inp.data)
    ELSE IF inp.type = input_model THEN [value |-> Some(inp), error |-> None]
    ELSE IF inp.type \in ModelClasses THEN Construct(input_model, inp.data)
    ELSE InputTypeError(input_model)

\* One pass of the loop of _validate_inputs.
ValidateInput(input_model, inp) ==
    IF inp.type = "str"
    THEN (IF input_model = "TextInput"
          THEN Construct("TextInput", [text |-> inp.data.text])
          ELSE InputTypeError(input_model))
    ELSE IF inp.type = "dict" THEN Construct(input_model, inp.data)
    ELSE IF inp.type = input_model THEN [value |-> Some(inp), error |-> None]
    ELSE IF inp.type \in ModelClasses THEN Construct(input_model, inp.data)
    ELSE InputTypeError(input_model)

\* The list of validated inputs, or the exception of the first input that fails
RECURSIVE _validate_inputs(_, _)
_validate_inputs(task_cls, inputs) ==
    IF inputs = <<>> THEN [validated |-> <<>>, error |-> None]
    ELSE LET first == ValidateInput(task_cls.attrs.input_model[1], Head(inputs))
             rest == _validate_inputs(task_cls, Tail(inputs))
         IN IF first.error # None THEN [validated |-> <<>>, error |-> first.error]
            ELSE IF rest.error # None THEN rest
            ELSE [validated |-> <<first.value[1]>> \o rest.validated, error |-> None]

\* Mutant: the prompt function gets the model whatever the input shape is.
_build_prompts_FullModel(task_cls, inputs) ==
    [i \in 1..Len(inputs) |->
        [fn |-> task_cls.attrs.prompt_fn[1], model |-> inputs[i]]]

\* A prompt is the application of the prompt function to its argument.
_build_prompts(task_cls, inputs) ==
    [i \in 1..Len(inputs) |->
        IF task_cls.attrs.input_model[1] = "TextInput"
        THEN [fn |-> task_cls.attrs.prompt_fn[1], text |-> inputs[i].data.text]
        ELSE [fn |-> task_cls.attrs.prompt_fn[1], model |-> inputs[i]]]

get_config(task_cls) ==
    IF task_cls.attrs.default_config = None \/ task_cls.attrs.default_config[1] = <<>>
    THEN <<>> ELSE task_cls.attrs.default_config[1]

\* {**d, **e}
RECURSIVE Merge(_, _)
Merge(d, e) ==
    IF e = <<>> THEN d ELSE Merge(SetItem(d, Head(e)[1], Head(e)[2]), Tail(e))

\* Mutant: the defaults are applied over the overrides.
EffectiveConfig_Swapped(task_cls, config_overrides) ==
    Merge(IF config_overrides = None THEN <<>> ELSE config_overrides[1],
          get_config(task_cls))

\* config = {**task_cls.get_config(), **(config_overrides or {})}
EffectiveConfig(task_cls, config_overrides) ==
    Merge(get_config(task_cls),
          IF config_overrides = None THEN <<>> ELSE config_overrides[1])

\* Mutant: null entries are dropped from what run_task returns.
ReturnValue_DropNull(results) == SelectSeq(results, LAMBDA r : r # None)

\* return results
ReturnValue(results) == results

\* The two backend calls of run_task and what they return; answered[i] tells
\* whether the backend parses the response to prompt i into an output model.
Responses(prompts, answered) ==
    [i \in 1..Len(prompts) |-> [prompt |-> prompts[i], parses |-> answered[i]]]

Parsed(schema, responses) ==
    [i \in 1..Len(responses) |->
        IF responses[i].parses
        THEN Some([schema |-> schema, prompt |-> responses[i].prompt])
        ELSE None]

Execute(prompts, schema, config, responses) ==
    [method |-> "process_with_schema", prompts |-> prompts, schema |-> schema,
     guided_config |-> config, returned |-> responses]

Parse(schema, responses, results) ==
    [method |-> "parse_results_with_schema", schema |-> schema,
     responses |-> responses, returned |-> results]

\* Mutant: the backend is asked again when an output is missing.
Dispatch_Retry(prompts, schema, config, answered) ==
    LET responses == Responses(prompts, answered)
        results == Parsed(schema, responses)
        once == <<Execute(prompts, schema, config, responses),
                  Parse(schema, responses, results)>>
    IN [calls |-> IF \E i \in 1..Len(results) : results[i] = None
                  THEN once \o once ELSE once,
        results |-> results]

\* processor.process_with_schema(...) then processor.parse_results_with_schema(...)
Dispatch(prompts, schema, config, answered) ==
    LET responses == Responses(prompts, answered)
        results == Parsed(schema, responses)
    IN [calls |-> <<Execute(prompts, schema, config, responses),
                    Parse(schema, responses, results)>>,
        results |-> results]

\* run_task(task, inputs, processor, config_overrides)
run_task(reg, task, inputs, config_overrides, answered) ==
    LET resolved == IF task.by = "name" THEN get_task(reg, task.name)
                    ELSE [ret |-> Some(task.cls), error |-> None]
        task_cls == resolved.ret[1]
        checked == _validate_inputs(task_cls, inputs)
        prompts == _build_prompts(task_cls, checked.validated)
        config == EffectiveConfig(task_cls, config_overrides)
        sent == Dispatch(prompts, task_cls.attrs.output_model[1], config, answered)
    IN IF resolved.error # None
       THEN [error |-> resolved.error, calls |-> <<>>, ret |-> <<>>]
       ELSE IF checked.error # None
       THEN [error |-> checked.error, calls |-> <<>>, ret |-> <<>>]
       ELSE [error |-> None, calls |-> sent.calls, ret |-> ReturnValue(sent.results)]

---------------------------------------------------------------------------
(* Task runs.  Sampling temperatures are counted in tenths.                *)

TaskClass(id, name, input_model, output_model, prompt_fn, default_config) ==
    [id |-> id,
     attrs |-> [name |-> name, input_model |-> Some(input_model),
                output_model |-> Some(output_model), prompt_fn |-> Some(prompt_fn),
                default_config |-> default_config]]

AlertsTask ==
    TaskClass(1, Some("alerts"), "TextInput", "AlertsOutput", "alert_detection_prompt",
              Some(<<<<"temperature", 1>>, <<"max_tokens", 1000>>>>))

CompositionTask ==
    TaskClass(2, Some("composition"), "ExcerptSet", "CompositionOutput",
              "composition_prompt",
              Some(<<<<"temperature", 7>>, <<"max_tokens", 500>>>>))

\* A BaseTask subclass without a name and without default_config: it is not
\* registered and can be handed to run_task as a class.
UnnamedTask ==
    TaskClass(3, None, "TextInput", "AlertsOutput", "alert_detection_prompt", None)

\* A task whose default_config holds a nested dict.
NestedConfigTask ==
    TaskClass(4, None, "TextInput", "AlertsOutput", "alert_detection_prompt",
              Some(<<<<"extra_body", <<<<"top_k", 1>>, <<"min_p", 2>>>>>>,
                     <<"max_tokens", 100>>>>))

\* import of the task packages: the class statements of the built-in tasks
ImportTasks ==
    /\ registry.task = <<>>
    /\ LET first == __init_subclass__("task", registry.task, AlertsTask)
           second == __init_subclass__("task", first.registry, CompositionTask)
       IN /\ registry' = [registry EXCEPT !.task = second.registry]
          /\ regcall' = [op |-> "define", kind |-> "task", cls |-> CompositionTask,
                         error |-> second.error]
    /\ UNCHANGED <<bank, sampling, validation, runcall, rng, earlier, extraction, composition, files, persist, store, query>>

TextInputs ==
    {[type |-> "TextInput", data |-> [text |-> "hello", text_id |-> id, metadata |-> <<>>]] :
        id \in {None, Some("t1")}}

OtherModels ==
    {[type |-> "ExcerptSet",
      data |-> [excerpts |-> <<"x">>, source_labels |-> <<"fraud">>,
                source_text_ids |-> <<"t1">>, target_labels |-> <<"fraud">>]],
     [type |-> "SyntheticText",
      data |-> [text_id |-> Some("synthetic_0001"), text |-> "composed",
                source_excerpts |-> <<"x">>, source_labels |-> <<"fraud">>,
                source_text_ids |-> <<"t1">>, target_labels |-> <<"fraud">>,
                coherence_notes |-> "", created_at |-> "now"]],
     [type |-> "TextPairInput",
      data |-> [source_text |-> "a", reference_text |-> "b", text_id |-> None,
                metadata |-> <<>>]]}

Mappings ==
    {[type |-> "dict", data |-> d] :
        d \in {[text |-> "hello"], [text |-> "hello", text_id |-> Some("t1")],
               [text_id |-> Some("t1")],
               [excerpts |-> <<"x">>, source_labels |-> <<"fraud">>]}}

InputValues ==
    {[type |-> "str", data |-> [text |-> "hello"]],
     [type |-> "int", data |-> [value |-> 42]]}
        \cup Mappings \cup TextInputs \cup OtherModels

TaskArgs ==
    {[by |-> "name", name |-> n] : n \in {"alerts", "composition", "moderation"}}
        \cup {[by |-> "class", cls |-> c] :
                  c \in {AlertsTask, CompositionTask, UnnamedTask, NestedConfigTask}}

ConfigOverrides ==
    {None, Some(<<>>), Some(<<<<"temperature", 9>>>>),
     Some(<<<<"top_p", 5>>, <<"temperature", 9>>>>),
     Some(<<<<"extra_body", <<<<"top_k", 5>>>>>>>>)}

\* run_task(task, inputs, processor, config_overrides)
RunTask ==
    /\ runcall = NoCall
    /\ \E task \in TaskArgs, inputs \in SeqsUpTo(InputValues, MaxInputs),
          config_overrides \in ConfigOverrides :
          \E answered \in [1..Len(inputs) -> BOOLEAN] :
             LET done == run_task(registry.task, task, inputs, config_overrides,
                                  answered)
             IN runcall' = [op |-> "run_task", task |-> task, inputs |-> inputs,
                            config_overrides |-> config_overrides,
                            error |-> done.error, calls |-> done.calls,
                            ret |-> done.ret]
    /\ UNCHANGED <<bank, sampling, validation, registry, regcall, rng, earlier, extraction, composition, files, persist, store, query>>

NextRunTask ==
    \/ ImportTasks
    \/ RunTask

SpecRunTask == Init /\ [][NextRunTask]_vars

---------------------------------------------------------------------------
(* Properties of the task runner.                                          *)

\* C7: the list run_task returns is the backend's parsed output: one entry
\* per input, entry i for input i, every null entry still null at its own
\* position; a null entry makes run_task neither raise nor drop anything.
C7_ReturnsParsedOutput ==
    (runcall.op = "run_task" /\ runcall.calls # <<>>) =>
        /\ runcall.error = None
        /\ Len(runcall.ret) = Len(runcall.inputs)
        /\ Len(runcall.calls[2].returned) = Len(runcall.inputs)
        /\ \A i \in 1..Len(runcall.inputs) :
              /\ runcall.ret[i] = runcall.calls[2].returned[i]
              /\ runcall.ret[i] # None =>
                    runcall.ret[i][1].prompt = runcall.calls[1].prompts[i]

\* C7 witness: the backend parsed the second of two responses only.
C7_Witness ==
    /\ runcall.op = "run_task"
    /\ runcall.error = None
    /\ Len(runcall.inputs) = 2
    /\ runcall.calls[2].returned[1] = None
    /\ runcall.calls[2].returned[2] # None

\* The call got past the resolution of its task.
Resolved ==
    /\ runcall.op = "run_task"
    /\ runcall.error # None => runcall.error[1].type # "KeyError"

InputModelOf(task) ==
    IF task.by = "name" THEN Lookup(registry.task, task.name).attrs.input_model[1]
    ELSE task.cls.attrs.input_model[1]

HasRequired(input_model, inp) == RequiredFields(input_model) \subseteq DOMAIN inp.data

\* The three accepted forms: an instance, a mapping that coerces, a bare
\* string for a TextInput task.
ThreeForms(input_model, inp) ==
    \/ inp.type = input_model
    \/ inp.type = "dict" /\ HasRequired(input_model, inp)
    \/ inp.type = "str" /\ input_model = "TextInput"

AcceptedForm(input_model, inp) ==
    \/ ThreeForms(input_model, inp)
    \/ inp.type \in ModelClasses /\ HasRequired(input_model, inp)

RejectionOf(input_model, inp) ==
    [type |-> IF inp.type = "dict" \/ inp.type \in ModelClasses
              THEN "ValidationError" ELSE "TypeError",
     expected |-> input_model]

Dispatched == runcall.op = "run_task" /\ runcall.error = None

ClassOf(task) ==
    IF task.by = "name" THEN Lookup(registry.task, task.name) ELSE task.cls

OverridesOf(call) ==
    IF call.config_overrides = None THEN <<>> ELSE call.config_overrides[1]

\* The validated form of the inputs of a dispatched call.
Coerced(call) ==
    [i \in 1..Len(call.inputs) |->
        ValidateInput(InputModelOf(call.task), call.inputs[i]).value[1]]

\* C17: a run_task call that reaches dispatch calls execute once, with all
\* prompts in input order, the output shape and the effective config, then
\* parse once on the responses execute returned, and nothing more, also when
\* parse returns null entries; a call that fails earlier calls neither.
C17_OneExecuteOneParse ==
    runcall.op = "run_task" =>
        IF runcall.error # None THEN runcall.calls = <<>>
        ELSE LET task_cls == ClassOf(runcall.task)
                 execute == runcall.calls[1]
                 parse == runcall.calls[2]
             IN /\ Len(runcall.calls) = 2
                /\ execute.method = "process_with_schema"
                /\ execute.prompts = _build_prompts(task_cls, Coerced(runcall))
                /\ execute.schema = task_cls.attrs.output_model[1]
                /\ execute.guided_config =
                       Merge(get_config(task_cls), OverridesOf(runcall))
                /\ parse.method = "parse_results_with_schema"
                /\ parse.schema = task_cls.attrs.output_model[1]
                /\ parse.responses = execute.returned
                /\ Len(execute.returned) = Len(execute.prompts)

\* C17 witness: two prompts were sent and parse returned a null entry.
C17_Witness ==
    /\ Dispatched
    /\ Len(runcall.calls[1].prompts) = 2
    /\ runcall.calls[1].prompts[1] # runcall.calls[1].prompts[2]
    /\ \E i \in 1..2 : runcall.calls[2].returned[i] = None

\* C18: the config handed to the backend is the default config with every
\* key of config_overrides added or replaced by the override's value, whole
\* also when the value is nested; the other keys keep their default; without
\* overrides it is the defaults, without default config the overrides.
C18_ShallowMerge ==
    Dispatched =>
        LET config == runcall.calls[1].guided_config
            defaults == get_config(ClassOf(runcall.task))
            overrides == OverridesOf(runcall)
        IN /\ Range(Keys(config)) = Range(Keys(defaults)) \cup Range(Keys(overrides))
           /\ Len(config) = Cardinality(Range(Keys(config)))
           /\ \A k \in Range(Keys(overrides)) : Lookup(config, k) = Lookup(overrides, k)
           /\ \A k \in Range(Keys(defaults)) \ Range(Keys(overrides)) :
                 Lookup(config, k) = Lookup(defaults, k)
           /\ overrides = <<>> => config = defaults
           /\ defaults = <<>> => config = overrides

\* C18 witness: an override replaced a nested default whole and another
\* default was kept.
C18_Witness ==
    /\ Dispatched
    /\ runcall.task = [by |-> "class", cls |-> NestedConfigTask]
    /\ runcall.calls[1].guided_config =
           <<<<"extra_body", <<<<"top_k", 5>>>>>>, <<"max_tokens", 100>>>>

\* The raw text of an input given as a string, a mapping or a model.
RawText(inp) == inp.data.text

\* C19: run_task builds one prompt per validated input, in input order; for
\* the TextInput shape the prompt function is applied to the raw text of the
\* input, also when the input is a mapping or a model with id and metadata;
\* for any other shape it is applied to the full coerced input.
C19_PromptArguments ==
    Dispatched =>
        LET task_cls == ClassOf(runcall.task)
            prompts == runcall.calls[1].prompts
        IN /\ Len(prompts) = Len(runcall.inputs)
           /\ \A i \in 1..Len(prompts) :
                 prompts[i] =
                    IF task_cls.attrs.input_model[1] = "TextInput"
                    THEN [fn |-> task_cls.attrs.prompt_fn[1],
                          text |-> RawText(runcall.inputs[i])]
                    ELSE [fn |-> task_cls.attrs.prompt_fn[1],
                          model |-> Coerced(runcall)[i]]

\* C19 witness: a TextInput task given a model that carries an id.
C19_Witness ==
    /\ Dispatched
    /\ Len(runcall.inputs) = 1
    /\ runcall.inputs[1].type = "TextInput"
    /\ runcall.inputs[1].data.text_id # None
    /\ runcall.calls[1].prompts[1].text = "hello"

---------------------------------------------------------------------------
(* Seeded sampling.  The random module is a deterministic generator: seed  *)
(* sets its state, every draw reads the state and advances it.  The three  *)
(* strategies are computed here draw by draw as functions of that state;   *)
(* each operator yields [value, state], the state being the one after its  *)
(* draws.  The iteration order of a set of strings depends on the string   *)
(* hashes of the running process: it is given as a list of all labels in   *)
(* the order in which that process iterates them.                          *)

RngStates == 8

\* random.seed(a)
seed(a) == a % RngStates

Next(s) == (s + 1) % RngStates

_randbelow(s, n) == [value |-> s % n, state |-> Next(s)]

\* random.randint(a, b) for a <= b
randint(s, a, b) ==
    [value |-> a + _randbelow(s, b - a + 1).value, state |-> Next(s)]

\* random.choice(seq) for a non-empty seq
choice(s, seq) ==
    [value |-> seq[_randbelow(s, Len(seq)).value + 1], state |-> Next(s)]

\* random.random() > 0.5
random_above_half(s) == [value |-> 2 * s >= RngStates, state |-> Next(s)]

\* random.sample(population, k): k draws from a shrinking pool
RECURSIVE SampleFromPool(_, _, _, _)
SampleFromPool(s, pool, k, result) ==
    IF k = 0 THEN [value |-> result, state |-> s]
    ELSE LET j == _randbelow(s, Len(pool)).value + 1
             moved == [pool EXCEPT ![j] = pool[Len(pool)]]
         IN SampleFromPool(Next(s), SubSeq(moved, 1, Len(pool) - 1), k - 1,
                           Append(result, pool[j]))

sample(s, population, k) == SampleFromPool(s, population, k, <<>>)

\* list(a_set): the elements in the iteration order of the process
ListOfSet(a_set, order) == SelectSeq(order, LAMBDA x : x \in a_set)

RECURSIVE SeededLoop(_, _, _, _, _, _, _)
SeededLoop(b, labels, max_excerpts, avoid_same_source, i, st, s) ==
    IF i > Len(labels) THEN [value |-> st, state |-> s]
    ELSE LET available == Available(b, labels[i], avoid_same_source, st.used_sources)
             excerpt_ref == choice(s, available)
             st2 == Collect(st, labels[i], excerpt_ref.value)
         IN IF available = <<>>
            THEN SeededLoop(b, labels, max_excerpts, avoid_same_source, i + 1, st, s)
            ELSE IF LimitReached(st2, max_excerpts)
            THEN [value |-> st2, state |-> excerpt_ref.state]
            ELSE SeededLoop(b, labels, max_excerpts, avoid_same_source, i + 1, st2,
                            excerpt_ref.state)

\* _sample_one_combination from generator state s
SeededSampleOne(b, labels, max_excerpts, avoid_same_source, s) ==
    LET done == SeededLoop(b, labels, max_excerpts, avoid_same_source, 1, SampleStart, s)
    IN [value |-> SampleReturn(done.value, labels), state |-> done.state]

\* What a strategy call leaves behind: its outcome and the generator state.
Outcome3(error, sets, state) == [error |-> error, sets |-> sets, state |-> state]

Reseed_Skipped(seed_arg, s) == s

\* `if seed is not None: random.seed(seed)`
Reseed(seed_arg, s) == IF seed_arg # None THEN seed(seed_arg[1]) ELSE s

RECURSIVE SeededPerCombination(_, _, _, _, _, _, _)
SeededPerCombination(b, labels, n, max_excerpts, avoid_same_source, excerpt_sets, s) ==
    IF n = 0 THEN [value |-> excerpt_sets, state |-> s]
    ELSE LET one == SeededSampleOne(b, labels, max_excerpts, avoid_same_source, s)
         IN SeededPerCombination(b, labels, n - 1, max_excerpts, avoid_same_source,
                                 AppendIfSet(excerpt_sets, one.value), one.state)

RECURSIVE SeededCombinationLoop(_, _, _, _, _, _, _)
SeededCombinationLoop(b, label_combinations, n_per_combination, max_excerpts, avoid_same_source, excerpt_sets, s) ==
    IF label_combinations = <<>> THEN Outcome3("none", excerpt_sets, s)
    ELSE LET labels == Head(label_combinations)
             missing == Missing(b, labels)
             per == SeededPerCombination(b, labels, n_per_combination, max_excerpts,
                                         avoid_same_source, excerpt_sets, s)
         IN IF missing # {}
            THEN SeededCombinationLoop(b, Tail(label_combinations), n_per_combination,
                                       max_excerpts, avoid_same_source, excerpt_sets, s)
            ELSE SeededCombinationLoop(b, Tail(label_combinations), n_per_combination,
                                       max_excerpts, avoid_same_source, per.value,
                                       per.state)

\* sample_by_label_combination(..., seed=seed_arg) entered in generator state s
seeded_by_label_combination(b, label_combinations, n_per_combination, max_excerpts_per_sample, avoid_same_source, seed_arg, s) ==
    SeededCombinationLoop(b, label_combinations, n_per_combination,
                          max_excerpts_per_sample, avoid_same_source, <<>>,
                          Reseed(seed_arg, s))

RECURSIVE SeededRandomLoop(_, _, _, _, _, _, _, _)
SeededRandomLoop(b, n, min_labels, max_labels, max_excerpts, avoid_same_source, excerpt_sets, s) ==
    IF n = 0 THEN Outcome3("none", excerpt_sets, s)
    ELSE LET available_labels == list_labels(b)
             hi == Min(max_labels, Len(available_labels))
             n_labels == randint(s, min_labels, hi)
             labels == sample(n_labels.state, available_labels, n_labels.value)
             one == SeededSampleOne(b, labels.value, max_excerpts, avoid_same_source,
                                    labels.state)
         IN IF min_labels > hi THEN Outcome3("ValueError", <<>>, s)
            ELSE SeededRandomLoop(b, n - 1, min_labels, max_labels, max_excerpts,
                                  avoid_same_source, AppendIfSet(excerpt_sets, one.value),
                                  one.state)

\* sample_random_combinations(..., seed=seed_arg) entered in generator state s
seeded_random_combinations(b, n_samples, min_labels, max_labels, max_excerpts_per_sample, avoid_same_source, seed_arg, s) ==
    IF list_labels(b) = <<>> THEN Outcome3("none", <<>>, Reseed(seed_arg, s))
    ELSE SeededRandomLoop(b, n_samples, min_labels, max_labels,
                          max_excerpts_per_sample, avoid_same_source, <<>>,
                          Reseed(seed_arg, s))

RECURSIVE SeededUnderrepresentedLoop(_, _, _, _, _, _, _, _)
SeededUnderrepresentedLoop(b, rare_labels, n, max_excerpts, avoid_same_source, excerpt_sets, s, order) ==
    IF n = 0 THEN Outcome3("none", excerpt_sets, s)
    ELSE LET n_rare == randint(s, 1, Min(2, Len(rare_labels)))
             rare == sample(n_rare.state, rare_labels, n_rare.value)
             other_labels == ListOfSet(Range(list_labels(b)) \ Range(rare.value), order)
             coin == random_above_half(rare.state)
             other == choice(coin.state, other_labels)
             add == other_labels # <<>> /\ coin.value
             labels == IF add THEN Append(rare.value, other.value) ELSE rare.value
             after == IF other_labels = <<>> THEN rare.state
                      ELSE IF coin.value THEN other.state ELSE coin.state
             one == SeededSampleOne(b, labels, max_excerpts, avoid_same_source, after)
         IN SeededUnderrepresentedLoop(b, rare_labels, n - 1, max_excerpts,
                                       avoid_same_source,
                                       AppendIfSet(excerpt_sets, one.value), one.state,
                                       order)

\* sample_underrepresented_combinations(..., seed=seed_arg) entered in state s
seeded_underrepresented_combinations(b, label_counts, n_samples, threshold_percentile, max_excerpts_per_sample, avoid_same_source, seed_arg, s, order) ==
    LET rare_labels == RareLabels(b, label_counts, threshold_percentile)
        fallback == seeded_random_combinations(b, n_samples, DefaultMinLabels,
                        DefaultMaxLabels, max_excerpts_per_sample,
                        DefaultAvoidSameSource, seed_arg, Reseed(seed_arg, s))
    IN IF label_counts = <<>> THEN fallback
       ELSE IF rare_labels = <<>> THEN fallback
       ELSE SeededUnderrepresentedLoop(b, rare_labels, n_samples,
                                       max_excerpts_per_sample, avoid_same_source,
                                       <<>>, Reseed(seed_arg, s), order)

---------------------------------------------------------------------------
(* Seeded calls as a state machine.  A bank over three labels is filled,   *)
(* a strategy is called (earlier), other code draws from the generator,    *)
(* and the same call is made again (sampling), in the same process or in   *)
(* another one, where sets of strings iterate in another order.            *)

PerLabel == 1

SeedLabels == <<"bullying", "fraud", "profanity">>
SeedTextIds == <<"t1", "t2">>
SeedValues == {3}
Seeds == {None} \cup {Some(a) : a \in SeedValues}

\* The orders in which a process may iterate a set of the three labels.
HashOrders ==
    {o \in [1..Len(SeedLabels) -> Range(SeedLabels)] : Range(o) = Range(SeedLabels)}

\* The references of one label: at most PerLabel texts, in the order of the batch.
SeedSources ==
    {ids \in SeqsUpTo(1..Len(SeedTextIds), PerLabel) :
        \A i, j \in 1..Len(ids) : i < j => ids[i] < ids[j]}

SeedRefLists(label) ==
    {[i \in 1..Len(ids) |-> <<label, ExcerptReference("x", SeedTextIds[ids[i]], "alerts", label)>>] :
        ids \in SeedSources}

SeedBanks ==
    {AddAll(EmptyBank, a \o b \o c) :
        a \in SeedRefLists(SeedLabels[1]), b \in SeedRefLists(SeedLabels[2]),
        c \in SeedRefLists(SeedLabels[3])}

FillBank ==
    /\ bank = None
    /\ \E b \in SeedBanks : bank' = Some(b)
    /\ UNCHANGED <<sampling, validation, registry, regcall, runcall, rng, earlier, extraction, composition, files, persist, store, query>>

SeedCombinations ==
    {<<>>} \cup {<<<<a, b>>>> : a, b \in Range(SeedLabels)}

SeedLabelCounts ==
    {<<>>} \cup
    {[i \in 1..Len(SeedLabels) |-> <<SeedLabels[i], c[i]>>] :
        c \in [1..Len(SeedLabels) -> 1..2]}

\* The call a record of arguments stands for, made in generator state s by
\* a process whose sets iterate in the given order.
SeededCall(call, s, order) ==
    IF call.op = "targeted"
    THEN seeded_by_label_combination(bank[1], call.label_combinations, call.n,
             call.max_excerpts, call.avoid_same_source, call.seed, s)
    ELSE IF call.op = "random"
    THEN seeded_random_combinations(bank[1], call.n, call.min_labels, call.max_labels,
             call.max_excerpts, call.avoid_same_source, call.seed, s)
    ELSE seeded_underrepresented_combinations(bank[1], call.label_counts, call.n,
             call.threshold_percentile, call.max_excerpts, call.avoid_same_source,
             call.seed, s, order)

\* A finished call: its arguments, the generator state it was entered in and
\* what it returned or raised.
Kept(call, s, out) ==
    [op |-> "seeded", call |-> call, entered |-> s,
     ret |-> [error |-> out.error, sets |-> out.sets]]

\* Only the underrepresented strategy turns a set of labels into a list.
OrdersFor(call) == IF call.op = "underrepresented" THEN HashOrders ELSE {SeedLabels}

CallAndKeep(call) ==
    \E order \in OrdersFor(call) :
       LET out == SeededCall(call, rng, order)
       IN /\ earlier' = Kept(call, rng, out)
          /\ rng' = out.state

SeededTargeted ==
    /\ bank # None /\ earlier = NoCall
    /\ \E label_combinations \in SeedCombinations, n \in {1, 2},
          max_excerpts \in {3}, avoid_same_source \in BOOLEAN, seed_arg \in Seeds :
          CallAndKeep([op |-> "targeted", label_combinations |-> label_combinations,
                       n |-> n, max_excerpts |-> max_excerpts,
                       avoid_same_source |-> avoid_same_source, seed |-> seed_arg])
    /\ UNCHANGED <<bank, sampling, validation, registry, regcall, runcall, extraction, composition, files, persist, store, query>>

SeededRandom ==
    /\ bank # None /\ earlier = NoCall
    /\ \E n \in {1, 2}, min_labels \in {1, 2}, max_labels \in {2, 3},
          max_excerpts \in {1, 3}, avoid_same_source \in BOOLEAN, seed_arg \in Seeds :
          CallAndKeep([op |-> "random", n |-> n, min_labels |-> min_labels,
                       max_labels |-> max_labels, max_excerpts |-> max_excerpts,
                       avoid_same_source |-> avoid_same_source, seed |-> seed_arg])
    /\ UNCHANGED <<bank, sampling, validation, registry, regcall, runcall, extraction, composition, files, persist, store, query>>

SeededUnderrepresented ==
    /\ bank # None /\ earlier = NoCall
    /\ \E label_counts \in SeedLabelCounts, n \in {1, 2},
          threshold_percentile \in Percentiles, max_excerpts \in {3},
          avoid_same_source \in {TRUE}, seed_arg \in Seeds :
          CallAndKeep([op |-> "underrepresented", label_counts |-> label_counts,
                       n |-> n, threshold_percentile |-> threshold_percentile,
                       max_excerpts |-> max_excerpts,
                       avoid_same_source |-> avoid_same_source, seed |-> seed_arg])
    /\ UNCHANGED <<bank, sampling, validation, registry, regcall, runcall, extraction, composition, files, persist, store, query>>

\* Any other use of the random module between the two calls.
OtherDraw ==
    /\ earlier # NoCall /\ sampling = NoCall
    /\ rng' = _randbelow(rng, 2).state
    /\ UNCHANGED <<bank, sampling, validation, registry, regcall, runcall, earlier, extraction, composition, files, persist, store, query>>

\* The call of `earlier` made again with the same arguments.
Replay ==
    /\ earlier # NoCall /\ sampling = NoCall
    /\ \E order \in OrdersFor(earlier.call) :
          LET out == SeededCall(earlier.call, rng, order)
          IN /\ sampling' = Kept(earlier.call, rng, out)
             /\ rng' = out.state
    /\ UNCHANGED <<bank, validation, registry, regcall, runcall, earlier, extraction, composition, files, persist, store, query>>

NextSeeded ==
    \/ FillBank
    \/ SeededTargeted
    \/ SeededRandom
    \/ SeededUnderrepresented
    \/ OtherDraw
    \/ Replay

SpecSeeded == Init /\ [][NextSeeded]_vars

Replayed(op) ==
    sampling.op = "seeded" /\ sampling.call.op = op /\ sampling.call.seed # None

\* C11: a call of sample_random_combinations with a non-null seed returns the
\* same sequence of ExcerptSets (or raises the same error) as an earlier call
\* with identical bank and arguments, whatever was drawn from the generator
\* between the two calls.
C11_RandomReplayIdentical ==
    Replayed("random") => sampling.ret = earlier.ret

\* A seeded random call replayed after other draws, returning a set.
C11_Witness ==
    /\ Replayed("random")
    /\ sampling.entered \notin {earlier.entered, rng}
    /\ Len(sampling.ret.sets) = 2

\* C12: sample_by_label_combination and sample_underrepresented_combinations
\* with a non-null seed return the same ExcerptSets on every run, whatever the
\* iteration order of the sets of labels inside the strategy.
C12_SeededReplayIdentical ==
    (Replayed("targeted") \/ Replayed("underrepresented")) =>
        sampling.ret = earlier.ret

---------------------------------------------------------------------------
(* build_excerpt_bank over batches that hold several capabilities.  The    *)
(* results of a text are raw dicts: an excerpt may be the empty string,    *)
(* and a capability other than alerts and recommendations may have run.    *)

BuildTexts == 2
BuildSpans == 2

count_by_label(b) == [i \in 1..Len(b) |-> <<b[i][1], Len(b[i][2])>>]

BuildAlertSpans == [alert_type : Labels, excerpt : {"x", ""}]

\* The results one text may carry when its alerts result holds k spans.
BuildResults(k) ==
    {alerts \o recommendations \o moderation :
        alerts \in {<<<<"alerts", [has_alerts |-> f, alerts |-> a]>>>> :
                        f \in BOOLEAN, a \in [1..k -> BuildAlertSpans]}
                   \cup (IF k = 0 THEN {<<>>} ELSE {}),
        recommendations \in {<<>>} \cup
            {<<<<"recommendations", r>>>> : r \in {x \in RecommendationsResults : x.has_recommendations}},
        moderation \in {<<>>} \cup
            {<<<<"moderation", r>>>> : r \in {x \in ModerationResults : x.has_violations}}}

\* The batches of the texts TextIds[i..n] whose alerts results hold at most
\* maxSpans spans together.
RECURSIVE BuildBatchesFrom(_, _, _)
BuildBatchesFrom(i, n, maxSpans) ==
    IF i > n THEN {<<>>}
    ELSE UNION {
           {<<[text_id |-> TextIds[i], results |-> rs]>> \o rest :
               rs \in BuildResults(k), rest \in BuildBatchesFrom(i + 1, n, maxSpans - k)} :
           k \in 0..maxSpans}

BuildBatches(maxTexts) == UNION {BuildBatchesFrom(1, n, BuildSpans) : n \in 0..maxTexts}

\* bank = build_excerpt_bank(batch), the caller keeping the batch
BuildExcerptBank ==
    /\ bank = None
    /\ \E b \in BuildBatches(BuildTexts) :
          /\ extraction' = Some(b)
          /\ bank' = Some(build_excerpt_bank(b))
    /\ UNCHANGED <<sampling, validation, registry, regcall, runcall, rng, earlier, composition, files, persist, store, query>>

\* bank.count_by_label(), read by the caller
CountByLabel ==
    /\ bank # None /\ sampling = NoCall
    /\ sampling' = [op |-> "count_by_label", ret |-> count_by_label(bank[1])]
    /\ UNCHANGED <<bank, validation, registry, regcall, runcall, rng, earlier, extraction, composition, files, persist, store, query>>

NextBuild ==
    \/ BuildExcerptBank
    \/ CountByLabel

SpecBuild == Init /\ [][NextBuild]_vars

\* The excerpt entries of a capability's result and the key of their label.
Entries(task_name, result) ==
    IF task_name = "alerts" THEN result.alerts
    ELSE IF task_name = "recommendations" THEN result.recommendations
    ELSE result.violations

LabelKey(task_name) ==
    IF task_name = "alerts" THEN "alert_type"
    ELSE IF task_name = "recommendations" THEN "qualifier"
    ELSE "violation"

RECURSIVE SumSeq(_)
SumSeq(q) == IF q = <<>> THEN 0 ELSE Head(q) + SumSeq(Tail(q))

\* The labeled excerpts of a batch: one [text_id, task, label, excerpt] per
\* entry of a result whose positive flag is true, in batch order.
EntriesOfResults(text_id, results) ==
    [i \in 1..Len(results) |->
        IF PositiveFlag(results[i][1], results[i][2])
        THEN [j \in 1..Len(Entries(results[i][1], results[i][2])) |->
                 [text_id |-> text_id, task |-> results[i][1],
                  label |-> Entries(results[i][1], results[i][2])[j][LabelKey(results[i][1])],
                  excerpt |-> Entries(results[i][1], results[i][2])[j].excerpt]]
        ELSE <<>>]

RECURSIVE Flatten(_)
Flatten(qq) == IF qq = <<>> THEN <<>> ELSE Head(qq) \o Flatten(Tail(qq))

LabeledExcerpts(b) ==
    Flatten([t \in 1..Len(b) |-> Flatten(EntriesOfResults(b[t].text_id, b[t].results))])

\* C13: the values of count_by_label() of the bank built from a batch sum to
\* the number of labeled excerpts held, over all texts and all capabilities
\* of the batch, by the results whose positive flag is true.
C13_CountsSumToExcerpts ==
    (extraction # None /\ sampling.op = "count_by_label") =>
        SumSeq([i \in 1..Len(sampling.ret) |-> sampling.ret[i][2]])
            = Len(LabeledExcerpts(extraction[1]))

\* The references of the bank, bucket by bucket.
BankRefs(b) == Flatten([i \in 1..Len(b) |-> b[i][2]])

RefOfEntry(e) == ExcerptReference(e.excerpt, e.text_id, e.task, e.label)

Occurrences(q, x) == Cardinality({i \in 1..Len(q) : q[i] = x})

C14_LabelOfBucket ==
    \A i \in 1..Len(bank[1]) : \A k \in 1..Len(bank[1][i][2]) :
        bank[1][i][2][k].label = bank[1][i][1]

C14_SourceOfReference ==
    \A ref \in Range(BankRefs(bank[1])) :
        \E e \in Range(LabeledExcerpts(extraction[1])) : RefOfEntry(e) = ref

C14_OneReferencePerExcerpt ==
    \A e \in Range(LabeledExcerpts(extraction[1])) :
        Occurrences(get_excerpts(bank[1], e.label), RefOfEntry(e))
            = Occurrences(LabeledExcerpts(extraction[1]), e)

C14_TwoBucketsTwoEntries ==
    \A r1, r2 \in Range(BankRefs(bank[1])) :
        (/\ r1.label # r2.label /\ r1.excerpt = r2.excerpt /\ r1.task = r2.task
         /\ r1.source_text_id = r2.source_text_id)
        => LET all == LabeledExcerpts(extraction[1])
           IN \E j1, j2 \in 1..Len(all) :
                 j1 # j2 /\ RefOfEntry(all[j1]) = r1 /\ RefOfEntry(all[j2]) = r2

\* C14: in the bank built from a batch, every reference in the bucket of a
\* label carries that label and the id of the text whose result produced it;
\* every labeled excerpt of a positive result has exactly one reference; and
\* one excerpt sits in two buckets only when its result held two entries
\* with those two labels.
C14_References ==
    (extraction # None /\ bank # None) =>
        /\ C14_LabelOfBucket
        /\ C14_SourceOfReference
        /\ C14_OneReferencePerExcerpt
        /\ C14_TwoBucketsTwoEntries

---------------------------------------------------------------------------
(* run_composition: sample or take ExcerptSets, run the composition task   *)
(* on them, and build one SyntheticText per non-null output.               *)

CompRefs == 2
MaxSets == 2

\* Defaults of the strategies' keyword parameters.
DefaultMaxExcerpts == 3
DefaultPercentile == 25

\* The set of outcomes of _sample_excerpt_sets
_sample_excerpt_sets(b, strategy, target_combinations, n_samples, n_per_combination, label_counts) ==
    IF strategy = "targeted" /\ target_combinations # None /\ target_combinations[1] # <<>>
    THEN sample_by_label_combination(b, target_combinations[1], n_per_combination,
                                     DefaultMaxExcerpts, DefaultAvoidSameSource)
    ELSE IF strategy = "underrepresented"
    THEN sample_underrepresented_combinations(b,
             IF label_counts = None THEN <<>> ELSE label_counts[1], n_samples,
             DefaultPercentile, DefaultMaxExcerpts, DefaultAvoidSameSource)
    ELSE sample_random_combinations(b, n_samples, DefaultMinLabels, DefaultMaxLabels,
                                    DefaultMaxExcerpts, DefaultAvoidSameSource)

\* An ExcerptSet as a model instance handed to run_task.
AsModel(cls, data) == [type |-> cls, data |-> data]

\* The fields of a parsed CompositionOutput: the text the backend composed
\* for a prompt is told apart by that prompt.
composed_text(result) == [composed_for |-> result.prompt]
coherence_notes(result) == [notes_for |-> result.prompt]

\* Mutant: the artifact's target labels are taken from the source labels.
SyntheticText_SourcesAsTargets(i, excerpt_set, result) ==
    [text_id |-> i, text |-> composed_text(result),
     source_excerpts |-> excerpt_set.excerpts,
     source_labels |-> excerpt_set.source_labels,
     source_text_ids |-> excerpt_set.source_text_ids,
     target_labels |-> excerpt_set.source_labels,
     coherence_notes |-> coherence_notes(result), created_at |-> "now"]

SyntheticText(i, excerpt_set, result) ==
    [text_id |-> i, text |-> composed_text(result),
     source_excerpts |-> excerpt_set.excerpts,
     source_labels |-> excerpt_set.source_labels,
     source_text_ids |-> excerpt_set.source_text_ids,
     target_labels |-> excerpt_set.target_labels,
     coherence_notes |-> coherence_notes(result), created_at |-> "now"]

\* for i, (excerpt_set, result) in enumerate(zip(sets_to_compose, results))
RECURSIVE ComposeLoop(_, _, _, _)
ComposeLoop(sets_to_compose, results, i, synthetic_texts) ==
    IF i > Min(Len(sets_to_compose), Len(results)) THEN synthetic_texts
    ELSE IF results[i] = None
    THEN ComposeLoop(sets_to_compose, results, i + 1, synthetic_texts)
    ELSE ComposeLoop(sets_to_compose, results, i + 1,
             Append(synthetic_texts,
                    SyntheticText(i, sets_to_compose[i], results[i][1])))

\* batch_id or f"synthetic_{uuid.uuid4().hex[:8]}": a generated id is opaque
SyntheticBatch(batch_id, texts, source_excerpt_bank) ==
    [batch_id |-> IF batch_id # None /\ batch_id[1] # "" THEN batch_id[1]
                  ELSE "synthetic_uuid",
     texts |-> texts, source_excerpt_bank |-> source_excerpt_bank,
     created_at |-> "now"]

\* Mutant: the composition task is run whatever the number of sets.
NothingToCompose_Never(sets_to_compose) == FALSE

\* `if not sets_to_compose`
NothingToCompose(sets_to_compose) == sets_to_compose = <<>>

\* run_composition from line 81 on, for a bank held in memory
Compose(sets_to_compose, batch_id, config_overrides, answered) ==
    LET done == run_task(<<>>, [by |-> "class", cls |-> CompositionTask],
                         [i \in 1..Len(sets_to_compose) |->
                             AsModel("ExcerptSet", sets_to_compose[i])],
                         config_overrides, answered)
        texts == ComposeLoop(sets_to_compose, done.ret, 1, <<>>)
    IN IF NothingToCompose(sets_to_compose)
       THEN [error |-> None, calls |-> <<>>,
             ret |-> Some(SyntheticBatch(batch_id, <<>>, None))]
       ELSE IF done.error # None
       THEN [error |-> done.error, calls |-> done.calls, ret |-> None]
       ELSE [error |-> None, calls |-> done.calls,
             ret |-> Some(SyntheticBatch(batch_id, texts, None))]

GivenSets ==
    {ExcerptSet(<<"x">>, <<"fraud">>, <<"t1">>, <<"fraud">>),
     ExcerptSet(<<"x", "x">>, <<"fraud", "profanity">>, <<"t1", "t2">>,
                <<"fraud", "profanity">>),
     ExcerptSet(<<"x">>, <<"profanity">>, <<"t2">>, <<"profanity", "fraud">>)}

BatchIds == {None, Some("b1")}

Composed(excerpt_sets, sets_to_compose, done) ==
    [op |-> "run_composition", excerpt_sets |-> excerpt_sets,
     sets_to_compose |-> sets_to_compose, error |-> done.error,
     calls |-> done.calls, ret |-> done.ret]

\* run_composition(bank, processor, excerpt_sets=[...]); the bank is not read
\* when the sets are given, the call is explored with the empty bank
ComposeGiven ==
    /\ bank = Some(EmptyBank) /\ composition = NoCall
    /\ \E excerpt_sets \in SeqsUpTo(GivenSets, MaxSets), batch_id \in BatchIds,
          config_overrides \in ConfigOverrides :
          \E answered \in [1..Len(excerpt_sets) -> BOOLEAN] :
             composition' = Composed(Some(excerpt_sets), excerpt_sets,
                                Compose(excerpt_sets, batch_id, config_overrides, answered))
    /\ UNCHANGED <<bank, sampling, validation, registry, regcall, runcall, rng, earlier, extraction, files, persist, store, query>>

Strategies == {"random", "targeted", "underrepresented", "balanced"}

TargetCombinations ==
    {None, Some(<<>>), Some(<<<<"fraud">>>>), Some(<<<<"fraud", "profanity">>>>)}

CompLabelCounts == {None, Some(<<<<"fraud", 1>>, <<"profanity", 2>>>>)}

\* run_composition(bank, processor, sampling_strategy=..., ...)
ComposeSampled ==
    /\ bank # None /\ composition = NoCall
    /\ \E strategy \in Strategies, target_combinations \in TargetCombinations,
          n \in 0..MaxSamples, label_counts \in CompLabelCounts,
          batch_id \in BatchIds :
          \E sampled \in _sample_excerpt_sets(bank[1], strategy, target_combinations,
                              n, n, label_counts) :
             \E answered \in [1..Len(sampled.sets) -> BOOLEAN] :
                /\ sampled.error = "none"
                /\ composition' = Composed(None, sampled.sets,
                                      Compose(sampled.sets, batch_id, None, answered))
    /\ UNCHANGED <<bank, sampling, validation, registry, regcall, runcall, rng, earlier, extraction, files, persist, store, query>>

NextComposition ==
    \/ BuildBank(CompRefs)
    \/ ComposeGiven
    \/ ComposeSampled

SpecComposition == Init /\ [][NextComposition]_vars

ComposeReturned ==
    composition.op = "run_composition" /\ composition.error = None

\* What the backend's parse call returned, none when it was not called.
EngineOutputs ==
    IF composition.calls = <<>> THEN <<>> ELSE composition.calls[2].returned

\* The input positions with a non-null engine output, in input order.
AnsweredPositions ==
    SelectSeq([i \in 1..Len(composition.sets_to_compose) |-> i],
              LAMBDA i : i <= Len(EngineOutputs) /\ EngineOutputs[i] # None)

\* C15: run_composition returns one artifact per ExcerptSet with a non-null
\* engine output and none for a null one, in input order; the artifact's text
\* is the composed text of that output, and its source excerpts, source
\* labels, source text ids and target labels are those of the ExcerptSet at
\* the same input position.
C15_OneArtifactPerOutput ==
    ComposeReturned =>
        LET texts == composition.ret[1].texts
        IN /\ Len(texts) = Len(AnsweredPositions)
           /\ \A k \in 1..Len(texts) :
                 LET i == AnsweredPositions[k]
                     excerpt_set == composition.sets_to_compose[i]
                 IN /\ texts[k].text = composed_text(EngineOutputs[i][1])
                    /\ EngineOutputs[i][1].prompt.model.data = excerpt_set
                    /\ texts[k].source_excerpts = excerpt_set.excerpts
                    /\ texts[k].source_labels = excerpt_set.source_labels
                    /\ texts[k].source_text_ids = excerpt_set.source_text_ids
                    /\ texts[k].target_labels = excerpt_set.target_labels

\* Two different sets, the first without an output, the second with one.
C15_Witness ==
    /\ ComposeReturned
    /\ Len(composition.sets_to_compose) = 2
    /\ composition.sets_to_compose[1] # composition.sets_to_compose[2]
    /\ AnsweredPositions = <<2>>
    /\ Len(composition.ret[1].texts) = 1

\* C16: with no ExcerptSet to compose, because an empty list was supplied or
\* because sampling produced none, run_composition returns a batch without
\* artifacts and the backend is not invoked.
C16_NothingComposed ==
    (composition.op = "run_composition" /\ composition.sets_to_compose = <<>>) =>
        /\ composition.error = None
        /\ composition.ret # None
        /\ composition.ret[1].texts = <<>>
        /\ composition.calls = <<>>

\* Sampling from a bank that holds excerpts produced no set.
C16_Witness ==
    /\ composition.op = "run_composition"
    /\ composition.excerpt_sets = None
    /\ composition.sets_to_compose = <<>>
    /\ bank # None /\ bank[1] # <<>>
    /\ composition.ret[1].texts = <<>>

\* C26: the artifacts returned by one run_composition call carry sequential
\* ids: pairwise distinct, the k-th returned artifact numbered k without
\* gaps, also when null engine outputs were dropped.  (text_id i stands for
\* the string "synthetic_" followed by i in four digits.)
C26_SequentialIds ==
    ComposeReturned =>
        LET texts == composition.ret[1].texts
        IN /\ \A j, k \in 1..Len(texts) : j # k => texts[j].text_id # texts[k].text_id
           /\ \A k \in 1..Len(texts) : texts[k].text_id = k

---------------------------------------------------------------------------
(* Persistence.  save writes model_dump_json(), load reads it back with    *)
(* model_validate_json().  A Python value is a tagged record [k, v]; a     *)
(* JSON document is a value built of str, bool, int, float, none, list and *)
(* dict only.  A float is a pair numerator, denominator; a datetime is a   *)
(* count of microseconds after a fixed second.                             *)

StrValue(s) == [k |-> "str", v |-> s]
BoolValue(b) == [k |-> "bool", v |-> b]
IntValue(n) == [k |-> "int", v |-> n]
FloatValue(a, b) == [k |-> "float", v |-> <<a, b>>]
NoneValue == [k |-> "none"]
DatetimeValue(n) == [k |-> "datetime", v |-> n]
ListValue(items) == [k |-> "list", v |-> items]
TupleValue(items) == [k |-> "tuple", v |-> items]
DictValue(pairs) == [k |-> "dict", v |-> pairs]
ModelValue(cls, fields) == [k |-> "model", cls |-> cls, v |-> fields]

\* Mutant: the microseconds are not written.
isoformat_Seconds(n) == "2026-11-03T10:00:00"

\* datetime.isoformat(): the microseconds are written unless they are zero
isoformat(n) ==
    IF n = 0 THEN "2026-11-03T10:00:00"
    ELSE IF n = 1 THEN "2026-11-03T10:00:00.000001"
    ELSE "2026-11-03T10:00:00.000002"

\* the datetime an ISO 8601 string is parsed to
fromisoformat(s) ==
    IF s = "2026-11-03T10:00:00" THEN 0
    ELSE IF s = "2026-11-03T10:00:00.000001" THEN 1
    ELSE 2

\* model_dump_json(): the JSON document of a value
RECURSIVE Dump(_)
Dump(x) ==
    IF x.k = "datetime" THEN StrValue(isoformat(x.v))
    ELSE IF x.k \in {"list", "tuple"} THEN ListValue([i \in 1..Len(x.v) |-> Dump(x.v[i])])
    ELSE IF x.k \in {"dict", "model"}
    THEN DictValue([i \in 1..Len(x.v) |-> <<x.v[i][1], Dump(x.v[i][2])>>])
    ELSE x

\* Field types.
StrType == [t |-> "str"]
AnyType == [t |-> "any"]
DatetimeType == [t |-> "datetime"]
ListOf(type) == [t |-> "list", of |-> type]
DictOf(type) == [t |-> "dict", of |-> type]
OptionalOf(type) == [t |-> "optional", of |-> type]
ModelType(cls) == [t |-> "model", cls |-> cls]

\* The fields of the persisted models, in declaration order.
Schema(cls) ==
    IF cls = "ExtractionMetadata"
    THEN <<<<"source", StrType>>, <<"processed_at", DatetimeType>>,
           <<"tasks_applied", ListOf(StrType)>>>>
    ELSE IF cls = "ExtractedText"
    THEN <<<<"text_id", StrType>>, <<"original_text", StrType>>,
           <<"results", DictOf(AnyType)>>,
           <<"metadata", ModelType("ExtractionMetadata")>>>>
    ELSE IF cls = "ExtractionBatch"
    THEN <<<<"batch_id", StrType>>, <<"texts", ListOf(ModelType("ExtractedText"))>>,
           <<"created_at", DatetimeType>>>>
    ELSE IF cls = "ExcerptReference"
    THEN <<<<"excerpt", StrType>>, <<"source_text_id", StrType>>, <<"task", StrType>>,
           <<"label", StrType>>, <<"reasoning", StrType>>,
           <<"additional_fields", DictOf(AnyType)>>>>
    ELSE IF cls = "ExcerptBank"
    THEN <<<<"label_index", DictOf(ListOf(ModelType("ExcerptReference")))>>,
           <<"built_at", DatetimeType>>, <<"source_batch_ids", ListOf(StrType)>>>>
    ELSE IF cls = "SyntheticText"
    THEN <<<<"text_id", StrType>>, <<"text", StrType>>,
           <<"source_excerpts", ListOf(StrType)>>, <<"source_labels", ListOf(StrType)>>,
           <<"source_text_ids", ListOf(StrType)>>, <<"target_labels", ListOf(StrType)>>,
           <<"coherence_notes", StrType>>, <<"created_at", DatetimeType>>>>
    ELSE IF cls = "SyntheticBatch"
    THEN <<<<"batch_id", StrType>>, <<"texts", ListOf(ModelType("SyntheticText"))>>,
           <<"source_excerpt_bank", OptionalOf(StrType)>>,
           <<"created_at", DatetimeType>>>>
    ELSE IF cls = "LabelMatch"
    THEN <<<<"expected", ListOf(StrType)>>, <<"detected", ListOf(StrType)>>,
           <<"matched", ListOf(StrType)>>, <<"missed", ListOf(StrType)>>,
           <<"extra", ListOf(StrType)>>, <<"match_ratio", [t |-> "float"]>>>>
    ELSE IF cls = "ValidatedText"
    THEN <<<<"text_id", StrType>>, <<"text", StrType>>,
           <<"source_labels", ListOf(StrType)>>, <<"target_labels", ListOf(StrType)>>,
           <<"validation_results", DictOf(AnyType)>>,
           <<"label_match", OptionalOf(ModelType("LabelMatch"))>>,
           <<"is_valid", [t |-> "bool"]>>>>
    ELSE <<<<"batch_id", StrType>>, <<"source_synthetic_batch_id", StrType>>,
           <<"texts", ListOf(ModelType("ValidatedText"))>>,
           <<"tasks_used", ListOf(StrType)>>, <<"created_at", DatetimeType>>,
           <<"total_texts", [t |-> "int"]>>, <<"valid_count", [t |-> "int"]>>,
           <<"validation_rate", [t |-> "float"]>>,
           <<"avg_match_ratio", [t |-> "float"]>>>>

\* model_validate_json(): the value of the given type a JSON document of a
\* dumped model is read as; an untyped position keeps the JSON value
RECURSIVE Validate(_, _)
Validate(type, j) ==
    IF type.t = "datetime" THEN DatetimeValue(fromisoformat(j.v))
    ELSE IF type.t = "optional"
    THEN (IF j.k = "none" THEN j ELSE Validate(type.of, j))
    ELSE IF type.t = "list"
    THEN ListValue([i \in 1..Len(j.v) |-> Validate(type.of, j.v[i])])
    ELSE IF type.t = "dict"
    THEN DictValue([i \in 1..Len(j.v) |-> <<j.v[i][1], Validate(type.of, j.v[i][2])>>])
    ELSE IF type.t = "model"
    THEN ModelValue(type.cls,
               [i \in 1..Len(Schema(type.cls)) |->
                   <<Schema(type.cls)[i][1],
                     Validate(Schema(type.cls)[i][2], Lookup(j.v, Schema(type.cls)[i][1]))>>])
    ELSE j

MaxMicros == 1
PersistRefs == 2

Datetimes == 0..MaxMicros
Paths == {"a.json", "b.json"}

Strs(q) == ListValue([i \in 1..Len(q) |-> StrValue(q[i])])

\* What the free-form dict fields may hold: dumps of output models, other
\* JSON values, and values that only Python has.
FreeForm ==
    {DictValue(<<>>),
     DictValue(<<<<"test", StrValue("data")>>>>),
     DictValue(<<<<"alerts",
                  DictValue(<<<<"has_alerts", BoolValue(TRUE)>>,
                              <<"alerts",
                                ListValue(<<DictValue(<<<<"excerpt", StrValue("x")>>,
                                                        <<"alert_type", StrValue("fraud")>>,
                                                        <<"severity", NoneValue>>>>)>>)>>>>)>>,
                <<"recommendations",
                  DictValue(<<<<"has_recommendations", BoolValue(FALSE)>>,
                              <<"recommendations", ListValue(<<>>)>>>>)>>>>),
     DictValue(<<<<"test", TupleValue(<<StrValue("a"), StrValue("b")>>)>>>>)}

ExtractedTextValue(text_id, results, at) ==
    ModelValue("ExtractedText",
        <<<<"text_id", StrValue(text_id)>>, <<"original_text", StrValue("Hello")>>,
          <<"results", results>>,
          <<"metadata",
            ModelValue("ExtractionMetadata",
                <<<<"source", StrValue("organic")>>, <<"processed_at", DatetimeValue(at)>>,
                  <<"tasks_applied", Strs(<<"alerts", "recommendations">>)>>>>)>>>>)

ExtractionBatchValues ==
    {ModelValue("ExtractionBatch",
         <<<<"batch_id", StrValue("b1")>>,
           <<"texts", ListValue([i \in 1..Len(rs) |-> ExtractedTextValue(TextIds[i], rs[i], at)])>>,
           <<"created_at", DatetimeValue(at)>>>>) :
        rs \in SeqsUpTo(FreeForm, 2), at \in Datetimes}

ExcerptReferenceValue(ref) ==
    ModelValue("ExcerptReference",
        <<<<"excerpt", StrValue(ref.excerpt)>>,
          <<"source_text_id", StrValue(ref.source_text_id)>>,
          <<"task", StrValue(ref.task)>>, <<"label", StrValue(ref.label)>>,
          <<"reasoning", StrValue("")>>,
          <<"additional_fields", DictValue(<<<<"severity", NoneValue>>>>)>>>>)

\* The ExcerptBank object of a label_index.
ExcerptBankValue(b, at) ==
    ModelValue("ExcerptBank",
        <<<<"label_index",
            DictValue([i \in 1..Len(b) |->
                <<b[i][1],
                  ListValue([n \in 1..Len(b[i][2]) |-> ExcerptReferenceValue(b[i][2][n])])>>])>>,
          <<"built_at", DatetimeValue(at)>>,
          <<"source_batch_ids", Strs(<<"b1">>)>>>>)

ExcerptBankValues ==
    {ExcerptBankValue(build_excerpt_bank(b), at) :
        b \in Batches(PersistRefs), at \in Datetimes}

SyntheticTextValue(i, excerpt_set, at) ==
    ModelValue("SyntheticText",
        <<<<"text_id", StrValue(<<"synthetic_0001", "synthetic_0002">>[i])>>,
          <<"text", StrValue("composed")>>,
          <<"source_excerpts", Strs(excerpt_set.excerpts)>>,
          <<"source_labels", Strs(excerpt_set.source_labels)>>,
          <<"source_text_ids", Strs(excerpt_set.source_text_ids)>>,
          <<"target_labels", Strs(excerpt_set.target_labels)>>,
          <<"coherence_notes", StrValue("")>>, <<"created_at", DatetimeValue(at)>>>>)

SyntheticBatchValues ==
    {ModelValue("SyntheticBatch",
         <<<<"batch_id", StrValue("synthetic_uuid")>>,
           <<"texts", ListValue([i \in 1..Len(sets) |-> SyntheticTextValue(i, sets[i], at)])>>,
           <<"source_excerpt_bank", bank_path>>,
           <<"created_at", DatetimeValue(at)>>>>) :
        sets \in SeqsUpTo(GivenSets, 2), at \in Datetimes,
        bank_path \in {NoneValue, StrValue("bank.json")}}

LabelMatchValue(expected, detected, matched, ratio) ==
    ModelValue("LabelMatch",
        <<<<"expected", Strs(expected)>>, <<"detected", Strs(detected)>>,
          <<"matched", Strs(matched)>>, <<"missed", Strs(<<>>)>>,
          <<"extra", Strs(<<>>)>>, <<"match_ratio", ratio>>>>)

ValidatedTextValues ==
    {ModelValue("ValidatedText",
         <<<<"text_id", StrValue("synthetic_0001")>>, <<"text", StrValue("composed")>>,
           <<"source_labels", Strs(<<"fraud">>)>>, <<"target_labels", Strs(<<"fraud">>)>>,
           <<"validation_results", results>>, <<"label_match", label_match>>,
           <<"is_valid", BoolValue(label_match # NoneValue)>>>>) :
        results \in FreeForm,
        label_match \in {NoneValue,
                         LabelMatchValue(<<"fraud">>, <<"fraud">>, <<"fraud">>, FloatValue(1, 1)),
                         LabelMatchValue(<<>>, <<"fraud">>, <<>>, FloatValue(1, 1))}}

ValidationBatchValues ==
    {ModelValue("ValidationBatch",
         <<<<"batch_id", StrValue("validation_uuid")>>,
           <<"source_synthetic_batch_id", StrValue("synthetic_uuid")>>,
           <<"texts", ListValue(texts)>>, <<"tasks_used", Strs(<<"alerts">>)>>,
           <<"created_at", DatetimeValue(at)>>,
           <<"total_texts", IntValue(Len(texts))>>, <<"valid_count", IntValue(Len(texts))>>,
           <<"validation_rate", FloatValue(Len(texts), 1)>>,
           <<"avg_match_ratio", FloatValue(1, 3)>>>>) :
        texts \in SeqsUpTo(ValidatedTextValues, 1), at \in Datetimes}

PersistedValues ==
    ExtractionBatchValues \cup ExcerptBankValues \cup SyntheticBatchValues
        \cup ValidationBatchValues

\* x.save(path): Path(path).write_text(x.model_dump_json(indent=2))
Save ==
    /\ persist = NoCall
    /\ \E x \in PersistedValues, path \in Paths :
          /\ files' = SetItem(files, path, Dump(x))
          /\ persist' = [op |-> "save", path |-> path, x |-> x]
    /\ UNCHANGED <<bank, sampling, validation, registry, regcall, runcall, rng, earlier, extraction, composition, store, query>>

\* type(x).load(path) by the caller that saved x to path
Load ==
    /\ persist.op = "save"
    /\ persist' = [op |-> "load", path |-> persist.path, x |-> persist.x,
                   ret |-> Validate(ModelType(persist.x.cls),
                                    Lookup(files, persist.path))]
    /\ UNCHANGED <<bank, sampling, validation, registry, regcall, runcall, rng, earlier, extraction, composition, files, store, query>>

NextPersist ==
    \/ Save
    \/ Load

SpecPersist == Init /\ [][NextPersist]_vars

RECURSIVE JsonLike(_)
JsonLike(x) ==
    IF x.k = "tuple" THEN FALSE
    ELSE IF x.k = "list" THEN \A i \in 1..Len(x.v) : JsonLike(x.v[i])
    ELSE IF x.k \in {"dict", "model"} THEN \A i \in 1..Len(x.v) : JsonLike(x.v[i][2])
    ELSE TRUE

\* The field of a model value.
Field(x, name) == Lookup(x.v, name)

---------------------------------------------------------------------------
(* Further properties of the three sampling strategies.                    *)

\* The labels the claim calls rare: supplied count at or below the count at
\* the percentile, and present in the bank.
RareSet(b, label_counts, threshold_percentile) ==
    {label_counts[i][1] : i \in {j \in 1..Len(label_counts) :
        /\ label_counts[j][2] <= Threshold(label_counts, threshold_percentile)
        /\ label_counts[j][1] \in Range(list_labels(b))}}

\* C22: for every bank and every 1 <= min_labels <= max_labels,
\* sample_random_combinations does not raise and returns at most n_samples
\* ExcerptSets; each targets k pairwise-distinct available labels, k within
\* [min_labels, max_labels] bounded by the number of available labels, also
\* when the bank holds fewer labels than min_labels; an empty bank yields an
\* empty list.
C22_RandomCompletes ==
    sampling.op = "random" =>
        LET available == Range(list_labels(bank[1]))
            count == Cardinality(available)
            sets == sampling.ret.sets
        IN /\ sampling.ret.error = "none"
           /\ Len(sets) <= sampling.n
           /\ \A i \in 1..Len(sets) :
                 LET t == sets[i].target_labels
                 IN /\ Distinct(t)
                    /\ Range(t) \subseteq available
                    /\ Len(t) >= Min(sampling.min_labels, count)
                    /\ Len(t) <= Min(sampling.max_labels, count)
           /\ (available = {} => sets = <<>>)

\* The targets of one set as the claim describes them: k = 1 or 2 distinct
\* rare labels, optionally followed by one available label that is not rare.
RareThenOther(t, rare, available) ==
    \E k \in {1, 2} :
       /\ Len(t) \in {k, k + 1}
       /\ Distinct(t)
       /\ \A i \in 1..k : t[i] \in rare
       /\ (Len(t) = k + 1 => t[k + 1] \in available \ rare)

\* C23: when at least one rare label exists, every ExcerptSet returned by
\* sample_underrepresented_combinations targets 1 or 2 distinct rare labels,
\* optionally followed by exactly one further label, which is an available
\* label of the bank that is not rare and differs from the labels chosen.
C23_RareThenCommon ==
    (earlier.op = "seeded" /\ earlier.call.op = "underrepresented") =>
        LET rare == RareSet(bank[1], earlier.call.label_counts,
                            earlier.call.threshold_percentile)
            sets == earlier.ret.sets
        IN (earlier.call.label_counts # <<>> /\ rare # {}) =>
              \A i \in 1..Len(sets) :
                 RareThenOther(sets[i].target_labels, rare, Range(list_labels(bank[1])))

\* C24: when no rare label exists, sample_underrepresented_combinations
\* returns what sample_random_combinations returns for the same bank,
\* n_samples, max_excerpts_per_sample and avoid_same_source: one of the
\* outcomes the random strategy has with the caller's settings.
C24_FallbackIsRandom ==
    sampling.op = "underrepresented" =>
        LET rare == RareSet(bank[1], sampling.label_counts, sampling.threshold_percentile)
        IN (sampling.label_counts = <<>> \/ rare = {}) =>
              sampling.ret \in sample_random_combinations(bank[1], sampling.n,
                                   DefaultMinLabels, DefaultMaxLabels,
                                   sampling.max_excerpts, sampling.avoid_same_source)


---------------------------------------------------------------------------
(* The targeted strategy on lists of several combinations.                 *)

MaxDraws == 2

\* Combinations of one or two labels.
CombinationLists == {<<a>> : a \in Labels} \cup {<<a, b>> : a, b \in Labels}

\* sample_by_label_combination(bank, label_combinations, n_per_combination, ...)
\* explored for calls that draw at most MaxDraws samples in total
SampleCombinations ==
    /\ bank # None
    /\ sampling = NoCall
    /\ \E label_combinations \in SeqsUpTo(CombinationLists, MaxDraws),
          n_per_combination \in 0..MaxDraws, avoid_same_source \in BOOLEAN :
          /\ Len(label_combinations) * n_per_combination <= MaxDraws
          /\ \E ret \in sample_by_label_combination(bank[1], label_combinations,
                            n_per_combination, DefaultMaxExcerpts, avoid_same_source) :
                sampling' = [op |-> "targeted",
                             label_combinations |-> label_combinations,
                             n |-> n_per_combination, max_excerpts |-> DefaultMaxExcerpts,
                             avoid_same_source |-> avoid_same_source, ret |-> ret]
    /\ UNCHANGED <<bank, validation, registry, regcall, runcall, rng, earlier, extraction, composition, files, persist, store, query>>

NextTargeted ==
    \/ BuildBank(CompRefs)
    \/ SampleCombinations
    \/ SampleDone

SpecTargeted == Init /\ [][NextTargeted]_vars

TargetsOf(sets) == [i \in 1..Len(sets) |-> sets[i].target_labels]

\* cnt[i] copies of the i-th combination, for i, i + 1, ... in turn.
RECURSIVE Blocks(_, _, _)
Blocks(label_combinations, cnt, i) ==
    IF i > Len(label_combinations) THEN <<>>
    ELSE [j \in 1..cnt[i] |-> label_combinations[i]] \o Blocks(label_combinations, cnt, i + 1)

Absent(labels) == \E l \in Range(labels) : l \notin Range(list_labels(bank[1]))

\* C25: sample_by_label_combination does not abort on a combination that
\* names a label absent from the bank; such a combination contributes no
\* ExcerptSet, every other combination contributes at most n_per_combination
\* sets whose target_labels equal the combination, and the output follows the
\* order of the supplied combinations.
C25_SkipsAbsentKeepsOrder ==
    sampling.op = "targeted" =>
        LET combos == sampling.label_combinations
        IN /\ sampling.ret.error = "none"
           /\ \E cnt \in [1..Len(combos) -> 0..sampling.n] :
                 /\ \A i \in 1..Len(combos) : Absent(combos[i]) => cnt[i] = 0
                 /\ TargetsOf(sampling.ret.sets) = Blocks(combos, cnt, 1)

\* A skipped combination followed by one that is processed and yields a set.
C25_Witness ==
    /\ sampling.op = "targeted"
    /\ Len(sampling.label_combinations) = 2
    /\ Absent(sampling.label_combinations[1])
    /\ Len(sampling.ret.sets) = 1
    /\ sampling.ret.sets[1].target_labels = sampling.label_combinations[2]


---------------------------------------------------------------------------
(* run_validation on batches of several artifacts.  The artifacts carry   *)
(* the ids run_composition gave them (increasing, possibly with gaps) and *)
(* are re-extracted with the alerts capability.                           *)

BatchTexts == 2

BatchTargets == {<<>>, <<"fraud">>, <<"fraud", "profanity">>}

ArtifactBatches ==
    {b \in UNION {[1..n -> [text_id : 1..(BatchTexts + 1), target_labels : BatchTargets]] :
                      n \in 0..BatchTexts} :
        \A i, j \in 1..Len(b) : i < j => b[i].text_id < b[j].text_id}

\* What the backend answers for one artifact: null or one fraud alert.
BatchOutcomes ==
    {None, Some([has_alerts |-> TRUE,
                 alerts |-> <<[alert_type |-> "fraud", excerpt |-> "x"]>>])}

\* run_validation(synthetic_batch, processor, tasks=["alerts"], match_threshold=...)
RunValidationBatch ==
    /\ validation = NoCall
    /\ \E synthetic_batch \in ArtifactBatches, match_threshold \in Thresholds :
          \E results \in [1..Len(synthetic_batch) -> BatchOutcomes] :
             validation' = [op |-> "run_validation",
                            synthetic_batch |-> synthetic_batch,
                            tasks |-> Some(<<"alerts">>), all_results |-> <<results>>,
                            match_threshold |-> match_threshold,
                            ret |-> run_validation(synthetic_batch, Some(<<"alerts">>),
                                                   <<results>>, match_threshold)]
    /\ UNCHANGED <<bank, sampling, registry, regcall, runcall, rng, earlier, extraction, composition, files, persist, store, query>>

NextValidationBatch == RunValidationBatch

SpecValidationBatch == Init /\ [][NextValidationBatch]_vars

\* The records whose ratio reaches the threshold.
Passing(texts, threshold) ==
    {i \in 1..Len(texts) :
        texts[i].label_match.match_ratio[1] * threshold[2]
            >= threshold[1] * texts[i].label_match.match_ratio[2]}

\* C28: for every synthetic batch given to run_validation, the empty batch
\* and batches with null re-extractions included, the result holds one
\* validated record per artifact, in input order, with the artifact's id and
\* target labels; total_texts is the number of artifacts, valid_count the
\* number of records whose ratio is at least the threshold, valid_count <=
\* total_texts, and validation_rate = valid_count / total_texts, 0 for an
\* empty batch.
C28_OneRecordPerArtifact ==
    validation.op = "run_validation" =>
        LET synthetic_batch == validation.synthetic_batch
            ret == validation.ret
        IN /\ Len(ret.texts) = Len(synthetic_batch)
           /\ \A i \in 1..Len(synthetic_batch) :
                 /\ ret.texts[i].text_id = synthetic_batch[i].text_id
                 /\ ret.texts[i].target_labels = synthetic_batch[i].target_labels
           /\ ret.total_texts = Len(synthetic_batch)
           /\ ret.valid_count = Cardinality(Passing(ret.texts, validation.match_threshold))
           /\ ret.valid_count <= ret.total_texts
           /\ ret.validation_rate[2] > 0
           /\ IF ret.total_texts = 0 THEN ret.validation_rate[1] = 0
              ELSE ret.validation_rate[1] * ret.total_texts
                       = ret.valid_count * ret.validation_rate[2]

\* Two artifacts with ids 1 and 3: the first re-extraction is null and the
\* record fails, the second is answered and the record passes.
C28_Witness ==
    /\ validation.op = "run_validation"
    /\ Len(validation.synthetic_batch) = 2
    /\ validation.synthetic_batch[2].text_id = 3
    /\ validation.all_results[1][1] = None
    /\ validation.all_results[1][2] # None
    /\ validation.ret.total_texts = 2
    /\ validation.ret.valid_count = 1
    /\ ~validation.ret.texts[1].is_valid


---------------------------------------------------------------------------
(* The three stages in a row: a set is sampled, composed into an artifact, *)
(* and the artifact is validated by a re-extraction with the alerts        *)
(* capability.                                                             *)

\* run_composition(bank, processor, excerpt_sets=[the set just sampled])
ComposeSampledSet ==
    /\ sampling.op = "sample_one" /\ sampling.ret # None
    /\ composition = NoCall
    /\ \E answered \in [1..1 -> BOOLEAN] :
          composition' = Composed(Some(sampling.ret), sampling.ret,
                             Compose(sampling.ret, None, None, answered))
    /\ UNCHANGED <<bank, sampling, validation, registry, regcall, runcall, rng, earlier, extraction, files, persist, store, query>>

\* run_validation(the batch just composed, processor, tasks=["alerts"], ...)
ValidateComposed ==
    /\ composition.op = "run_composition" /\ composition.error = None
    /\ validation = NoCall
    /\ \E match_threshold \in Thresholds :
          LET synthetic_batch == composition.ret[1].texts
          IN \E results \in [1..Len(synthetic_batch) -> BatchOutcomes] :
                validation' = [op |-> "run_validation",
                               synthetic_batch |-> synthetic_batch,
                               tasks |-> Some(<<"alerts">>), all_results |-> <<results>>,
                               match_threshold |-> match_threshold,
                               ret |-> run_validation(synthetic_batch, Some(<<"alerts">>),
                                                      <<results>>, match_threshold)]
    /\ UNCHANGED <<bank, sampling, registry, regcall, runcall, rng, earlier, extraction, composition, files, persist, store, query>>

NextPipeline ==
    \/ BuildBank(CompRefs)
    \/ SampleOne
    \/ ComposeSampledSet
    \/ ValidateComposed

SpecPipeline == Init /\ [][NextPipeline]_vars

\* q is p with some elements left out.
RECURSIVE IsSubSequence(_, _)
IsSubSequence(q, p) ==
    IF q = <<>> THEN TRUE
    ELSE IF p = <<>> THEN FALSE
    ELSE IF Head(q) = Head(p) THEN IsSubSequence(Tail(q), Tail(p))
    ELSE IsSubSequence(q, Tail(p))

C29_PrimitiveKeepsRequested ==
    (sampling.op = "sample_one" /\ sampling.ret # None) =>
        /\ sampling.ret[1].target_labels = sampling.labels
        /\ IsSubSequence(sampling.ret[1].source_labels, sampling.labels)

C29_CompositionCopies ==
    (composition.op = "run_composition" /\ composition.error = None) =>
        \A k \in 1..Len(composition.ret[1].texts) :
           composition.ret[1].texts[k].target_labels = sampling.labels

C29_ValidationExpects ==
    validation.op = "run_validation" =>
        \A k \in 1..Len(validation.ret.texts) :
           LET label_match == validation.ret.texts[k].label_match
           IN /\ validation.ret.texts[k].target_labels = sampling.labels
              /\ label_match.expected = Range(sampling.labels)
              /\ label_match.matched \cup label_match.missed = Range(sampling.labels)

\* C29: every ExcerptSet returned by the shared sampling primitive has
\* target_labels equal to the complete list of requested labels, also the
\* labels skipped or cut off, so that source_labels is a sub-sequence of it;
\* run_composition copies target_labels unchanged into the artifact, and
\* run_validation takes exactly that list as the expected set, so that a
\* label for which no excerpt was included counts as expected.
C29_RequestedLabelsExpected ==
    /\ C29_PrimitiveKeepsRequested
    /\ C29_CompositionCopies
    /\ C29_ValidationExpects

\* Two labels requested, an excerpt included for the first only; the
\* artifact is validated and the second label is reported as missed.
C29_Witness ==
    /\ sampling.op = "sample_one"
    /\ sampling.labels = <<"fraud", "profanity">>
    /\ sampling.ret # None
    /\ sampling.ret[1].source_labels = <<"fraud">>
    /\ validation.op = "run_validation"
    /\ Len(validation.ret.texts) = 1
    /\ validation.ret.texts[1].label_match.matched = {"fraud"}
    /\ validation.ret.texts[1].label_match.missed = {"profanity"}


---------------------------------------------------------------------------
(* DataStore, in its two implementations: "core" is the schema-agnostic    *)
(* store of synth_data_pipeline/core/data_store.py, "legacy" the alerts    *)
(* store of synth_data_pipeline/data_store.py.  A DataFrame is the         *)
(* sequence of its rows; positions in it count from 0 as in the code.  The *)
(* two indexes are defaultdict(list): reading a missing key with d[key]    *)
(* inserts it.  An extraction result is an AlertsOutput: has_alerts, the   *)
(* alerts, and the optional non_alert_classification.                      *)

Impls == {"core", "legacy"}

\* DataStore()
NewStore(impl) ==
    [impl |-> impl, comments_df |-> None, excerpts_df |-> None,
     label_index |-> <<>>, negative_class_index |-> <<>>]

\* d[key] on a defaultdict(list): the value and the dict after the access
DefaultGet(d, key) ==
    IF key \in Range(Keys(d)) THEN [value |-> Lookup(d, key), dict |-> d]
    ELSE [value |-> <<>>, dict |-> Append(d, <<key, <<>>>>)]

\* d[key].append(x)
DefaultAppend(d, key, x) ==
    SetItem(DefaultGet(d, key).dict, key, Append(DefaultGet(d, key).value, x))

\* The row of comments_data for the text at position idx.  core keeps
\* list(result.get_labels()), a set listed in the iteration order of the
\* process; legacy keeps the alert type of every alert.
CommentRow(impl, idx, text, result, order) ==
    [comment_id |-> idx, text |-> text, has_positive_labels |-> result.has_alerts,
     labels |-> IF impl = "core" THEN ListOfSet(get_labels(result), order)
                ELSE [i \in 1..Len(result.alerts) |-> result.alerts[i].alert_type],
     negative_classification |-> result.non_alert_classification]

\* `for excerpt_data in result.get_excerpts()` / `for alert in result.alerts`
RECURSIVE AddExcerpts(_, _, _, _)
AddExcerpts(acc, idx, alerts, i) ==
    IF i > Len(alerts) THEN acc
    ELSE AddExcerpts(
           [acc EXCEPT
              !.label_index = DefaultAppend(@, alerts[i].alert_type, Len(acc.excerpts_data)),
              !.excerpts_data = Append(@, [excerpt_id |-> Len(acc.excerpts_data),
                                           comment_id |-> idx,
                                           excerpt |-> alerts[i].excerpt,
                                           label |-> alerts[i].alert_type])],
           idx, alerts, i + 1)

\* `for idx, (text, result) in enumerate(zip(original_texts, extraction_results))`
RECURSIVE LoadLoop(_, _, _, _, _, _)
LoadLoop(impl, original_texts, extraction_results, order, idx, acc) ==
    IF idx >= Min(Len(original_texts), Len(extraction_results)) THEN acc
    ELSE IF extraction_results[idx + 1] = None
    THEN LoadLoop(impl, original_texts, extraction_results, order, idx + 1, acc)
    ELSE LET result == extraction_results[idx + 1][1]
             neg_class == result.non_alert_classification
             acc1 == [acc EXCEPT !.comments_data =
                         Append(@, CommentRow(impl, idx, original_texts[idx + 1],
                                              result, order))]
             acc2 == IF result.has_alerts
                     THEN AddExcerpts(acc1, idx, result.alerts, 1) ELSE acc1
             acc3 == IF neg_class # None /\ Truthy(neg_class[1])
                     THEN [acc2 EXCEPT !.negative_class_index =
                              DefaultAppend(@, neg_class[1], idx)]
                     ELSE acc2
         IN LoadLoop(impl, original_texts, extraction_results, order, idx + 1, acc3)

\* The store after st.load_from_extraction_results(original_texts,
\* extraction_results): the two tables are rebuilt from empty lists, the two
\* indexes are the ones the store already holds, appended to.
load_from_extraction_results(st, original_texts, extraction_results, order) ==
    LET done == LoadLoop(st.impl, original_texts, extraction_results, order, 0,
                         [comments_data |-> <<>>, excerpts_data |-> <<>>,
                          label_index |-> st.label_index,
                          negative_class_index |-> st.negative_class_index])
    IN [impl |-> st.impl,
        comments_df |-> Some(done.comments_data),
        excerpts_df |-> Some(done.excerpts_data),
        label_index |-> done.label_index,
        negative_class_index |-> done.negative_class_index]

\* What a query leaves behind: its value or the exception that left it, and
\* the store after the call.
Answer(ret, st) == [error |-> "none", ret |-> ret, store |-> st]
Failure(exc, st) == [error |-> exc, ret |-> <<>>, store |-> st]

\* Mutant: the index is read without asking whether it holds the key.
KnownKey_Always(d, key) == TRUE

\* `label in self.label_index`
KnownKey(d, key) == key \in Range(Keys(d))

\* subset.sample(n=min(n, len(subset))), subset.head(n), or the subset itself
Subsets(rows, n, random_sample) ==
    IF random_sample /\ n # None /\ n[1] # 0
    THEN RandomSample(rows, Min(n[1], Len(rows)))
    ELSE IF n # None /\ n[1] # 0
    THEN {SubSeq(rows, 1, Min(n[1], Len(rows)))}
    ELSE {rows}

\* The outcomes of st.get_excerpts_by_label(label, n, random_sample).
\* excerpts_df.iloc[indices] raises IndexError on a position past the table.
get_excerpts_by_label(st, label, n, random_sample) ==
    IF \/ st.excerpts_df = None
       \/ (st.impl = "core" /\ st.excerpts_df[1] = <<>>)
       \/ ~KnownKey(st.label_index, label)
    THEN {Answer(<<>>, st)}
    ELSE LET rows == st.excerpts_df[1]
             got == DefaultGet(st.label_index, label)
             st2 == [st EXCEPT !.label_index = got.dict]
             indices == got.value
         IN IF \E i \in 1..Len(indices) : indices[i] >= Len(rows)
            THEN {Failure("IndexError", st2)}
            ELSE {Answer([i \in 1..Len(sub) |-> sub[i].excerpt], st2) :
                     sub \in Subsets([i \in 1..Len(indices) |-> rows[indices[i] + 1]],
                                     n, random_sample)}

\* {label: self.get_excerpts_by_label(label, ...) for label in labels}
RECURSIVE ByLabelsLoop(_, _, _, _, _)
ByLabelsLoop(st, labels, n_per_label, random_sample, result) ==
    IF labels = <<>> THEN {Answer(result, st)}
    ELSE UNION {
           IF one.error # "none" THEN {one}
           ELSE ByLabelsLoop(one.store, Tail(labels), n_per_label, random_sample,
                             SetItem(result, Head(labels), one.ret)) :
           one \in get_excerpts_by_label(st, Head(labels), n_per_label, random_sample)}

get_excerpts_by_labels(st, labels, n_per_label, random_sample) ==
    ByLabelsLoop(st, labels, n_per_label, random_sample, <<>>)

\* The outcomes of st.get_comments_by_negative_class(classification, n,
\* random_sample).  A table built from no row has no comment_id column.
get_comments_by_negative_class(st, classification, n, random_sample) ==
    IF st.comments_df = None \/ ~KnownKey(st.negative_class_index, classification)
    THEN {Answer(<<>>, st)}
    ELSE LET rows == st.comments_df[1]
             got == DefaultGet(st.negative_class_index, classification)
             st2 == [st EXCEPT !.negative_class_index = got.dict]
             isin == SelectSeq(rows, LAMBDA row : row.comment_id \in Range(got.value))
         IN IF rows = <<>> THEN {Failure("KeyError", st2)}
            ELSE {Answer([i \in 1..Len(sub) |-> sub[i].text], st2) :
                     sub \in Subsets(isin, n, random_sample)}

get_available_labels(st) == Keys(st.label_index)

get_available_negative_classes(st) == Keys(st.negative_class_index)

get_label_counts(st) ==
    [i \in 1..Len(st.label_index) |->
        <<st.label_index[i][1], Len(st.label_index[i][2])>>]

get_negative_class_counts(st) ==
    [i \in 1..Len(st.negative_class_index) |->
        <<st.negative_class_index[i][1], Len(st.negative_class_index[i][2])>>]

\* How often the nested loop over one row's labels adds 1 to matrix[a, b]:
\* once for every pair of positions i <= j that holds a and b in either order.
Increments(row_labels, a, b) ==
    Cardinality({p \in (1..Len(row_labels)) \X (1..Len(row_labels)) :
        /\ p[1] <= p[2]
        /\ \/ (row_labels[p[1]] = a /\ row_labels[p[2]] = b)
           \/ (row_labels[p[1]] = b /\ row_labels[p[2]] = a)})

RECURSIVE SumIncrements(_, _, _)
SumIncrements(rows, a, b) ==
    IF rows = <<>> THEN 0
    ELSE Increments(Head(rows).labels, a, b) + SumIncrements(Tail(rows), a, b)

\* st.get_cooccurrence_matrix(): matrix.loc[l1, l2] raises KeyError for a
\* label that is not among the matrix' labels.
get_cooccurrence_matrix(st) ==
    IF st.comments_df = None THEN Answer(<<>>, st)
    ELSE LET labels == Range(get_available_labels(st))
             rows == st.comments_df[1]
         IN IF \E i \in 1..Len(rows) : Range(rows[i].labels) \ labels # {}
            THEN Failure("KeyError", st)
            ELSE Answer([a \in labels |-> [b \in labels |-> SumIncrements(rows, a, b)]], st)


---------------------------------------------------------------------------
(* Calls on a DataStore.                                                   *)

StoreTexts == 2
StoreSpans == 2
MaxLoads == 2

CommentTexts == <<"c0", "c1", "c2", "c3">>

NegativeClasses == {"unclear"}

\* What the extractor may return for one text with k alerts: null only
\* without alerts, a non-alert classification only without alerts, and the
\* flag has_alerts whatever the alerts.
StoreResults(k) ==
    (IF k = 0 THEN {None} ELSE {}) \cup
    {Some([has_alerts |-> h, alerts |-> a, non_alert_classification |-> c]) :
        h \in BOOLEAN, a \in [1..k -> AlertSpans],
        c \in {None} \cup (IF k = 0 THEN {Some(x) : x \in NegativeClasses} ELSE {})}

\* The lists of n extraction results that hold at most maxSpans alerts.
RECURSIVE StoreResultLists(_, _)
StoreResultLists(n, maxSpans) ==
    IF n = 0 THEN {<<>>}
    ELSE UNION {
           {<<r>> \o rest : r \in StoreResults(k),
                            rest \in StoreResultLists(n - 1, maxSpans - k)} :
           k \in 0..maxSpans}

\* The orders in which a process may iterate a set of labels; only the core
\* store lists a set.
LabelOrders(impl) ==
    IF impl = "core"
    THEN {o \in [1..Cardinality(Labels) -> Labels] : Range(o) = Labels}
    ELSE {CHOOSE o \in [1..Cardinality(Labels) -> Labels] : Range(o) = Labels}

Loads == IF query.op = "none" THEN 0 ELSE query.loads
LastLoaded == IF query.op = "none" THEN <<>> ELSE query.loaded

Called(op, args, out) ==
    [op |-> op, loads |-> Loads, loaded |-> LastLoaded, args |-> args,
     error |-> out.error, ret |-> out.ret]

\* store = DataStore()
NewDataStore ==
    /\ store = None /\ bank = None
    /\ \E impl \in Impls : store' = Some(NewStore(impl))
    /\ UNCHANGED <<bank, sampling, validation, registry, regcall, runcall, rng, earlier, extraction, composition, files, persist, query>>

\* store.load_from_extraction_results(original_texts, extraction_results)
LoadStore(maxLoads, maxTexts, maxSpans) ==
    /\ store # None /\ Loads < maxLoads
    /\ \E n \in 0..maxTexts :
          \E extraction_results \in StoreResultLists(n, maxSpans),
             order \in LabelOrders(store[1].impl) :
             /\ store' = Some(load_from_extraction_results(store[1],
                                  SubSeq(CommentTexts, 1, n), extraction_results, order))
             /\ query' = [op |-> "load_from_extraction_results", loads |-> Loads + 1,
                          loaded |-> extraction_results, args |-> <<>>,
                          error |-> "none", ret |-> <<>>]
    /\ UNCHANGED <<bank, sampling, validation, registry, regcall, runcall, rng, earlier, extraction, composition, files, persist>>

\* store.get_cooccurrence_matrix()
GetCooccurrenceMatrix ==
    /\ store # None
    /\ LET out == get_cooccurrence_matrix(store[1])
       IN /\ query' = Called("get_cooccurrence_matrix", <<>>, out)
          /\ store' = Some(out.store)
    /\ UNCHANGED <<bank, sampling, validation, registry, regcall, runcall, rng, earlier, extraction, composition, files, persist>>

NextStore ==
    \/ NewDataStore
    \/ LoadStore(MaxLoads, StoreTexts, StoreSpans)
    \/ GetCooccurrenceMatrix

SpecStore == Init /\ [][NextStore]_vars

\* The labels the result of a text carries.
Carried(result) ==
    IF result = None THEN {}
    ELSE {result[1].alerts[i].alert_type : i \in 1..Len(result[1].alerts)}

\* The number of loaded texts whose results carry all the given labels.
TextsCarrying(results, labels) ==
    Cardinality({i \in 1..Len(results) : labels \subseteq Carried(results[i])})

\* C27: for every store loaded from extraction results, in both DataStore
\* implementations, get_cooccurrence_matrix returns for labels a and b the
\* number of texts whose results carry both a and b; the matrix is symmetric
\* and its diagonal entry for a is the number of texts carrying a, also for a
\* text that carries several excerpts with the same label.
C27_CooccurrenceCountsTexts ==
    (query.op = "get_cooccurrence_matrix" /\ query.loads > 0) =>
        /\ query.error = "none"
        /\ \A a, b \in DOMAIN query.ret :
              /\ query.ret[a][b] = TextsCarrying(query.loaded, {a, b})
              /\ query.ret[a][b] = query.ret[b][a]
              /\ query.ret[a][a] = TextsCarrying(query.loaded, {a})

\* C30: after any sequence of load_from_extraction_results calls on one
\* DataStore, every index stored in label_index[L] refers to an existing row
\* of the current excerpts table whose label is L, get_label_counts()[L] is
\* the number of rows of the current excerpts table with label L, and every
\* index in the negative-class index refers to a text of the current comments
\* table with that classification.
C30_IndexesMatchTables ==
    (store # None /\ Loads > 0) =>
        LET st == store[1]
            excerpts == st.excerpts_df[1]
            comments == st.comments_df[1]
            counts == get_label_counts(st)
        IN /\ \A i \in 1..Len(st.label_index) :
                 \A k \in Range(st.label_index[i][2]) :
                    /\ k < Len(excerpts)
                    /\ excerpts[k + 1].label = st.label_index[i][1]
           /\ \A i \in 1..Len(counts) :
                 counts[i][2] = Cardinality({k \in 1..Len(excerpts) :
                                                excerpts[k].label = counts[i][1]})
           /\ \A i \in 1..Len(st.negative_class_index) :
                 \A k \in Range(st.negative_class_index[i][2]) :
                    \E j \in 1..Len(comments) :
                       /\ comments[j].comment_id = k
                       /\ comments[j].negative_classification
                              = Some(st.negative_class_index[i][1])


---------------------------------------------------------------------------
(* The query operations of the bank and of the store, and the sampling     *)
(* strategies.  A bank and a store share no state: a behaviour builds one  *)
(* of the two and then calls it.                                           *)

\* bank.get_excerpts(label)
GetExcerpts ==
    /\ bank # None /\ sampling = NoCall
    /\ \E label \in Labels :
          sampling' = [op |-> "get_excerpts", label |-> label,
                       ret |-> get_excerpts(bank[1], label)]
    /\ UNCHANGED <<bank, validation, registry, regcall, runcall, rng, earlier, extraction, composition, files, persist, store, query>>

\* bank.list_labels()
ListLabels ==
    /\ bank # None /\ sampling = NoCall
    /\ sampling' = [op |-> "list_labels", ret |-> list_labels(bank[1])]
    /\ UNCHANGED <<bank, validation, registry, regcall, runcall, rng, earlier, extraction, composition, files, persist, store, query>>

\* One of the three strategies, called with its default settings.
SampleWith ==
    /\ bank # None /\ sampling = NoCall
    /\ \E strategy \in {"random", "targeted", "underrepresented"},
          target_combinations \in TargetCombinations,
          label_counts \in CompLabelCounts :
          \E ret \in _sample_excerpt_sets(bank[1], strategy, target_combinations,
                                          1, 1, label_counts) :
             sampling' = [op |-> "strategy", strategy |-> strategy, ret |-> ret]
    /\ UNCHANGED <<bank, validation, registry, regcall, runcall, rng, earlier, extraction, composition, files, persist, store, query>>

QueryNs == {None, Some(1)}

\* store.get_excerpts_by_label(label, n, random_sample)
GetExcerptsByLabel ==
    /\ store # None
    /\ \E label \in Labels, n \in QueryNs, random_sample \in BOOLEAN :
          \E out \in get_excerpts_by_label(store[1], label, n, random_sample) :
             /\ query' = Called("get_excerpts_by_label",
                                [label |-> label, n |-> n, random_sample |-> random_sample],
                                out)
             /\ store' = Some(out.store)
    /\ UNCHANGED <<bank, sampling, validation, registry, regcall, runcall, rng, earlier, extraction, composition, files, persist>>

\* store.get_excerpts_by_labels(labels, n_per_label, random_sample)
GetExcerptsByLabels ==
    /\ store # None
    /\ \E labels \in {<<"fraud">>, <<"profanity", "fraud">>}, random_sample \in BOOLEAN :
          \E out \in get_excerpts_by_labels(store[1], labels, Some(1), random_sample) :
             /\ query' = Called("get_excerpts_by_labels",
                                [labels |-> labels, random_sample |-> random_sample], out)
             /\ store' = Some(out.store)
    /\ UNCHANGED <<bank, sampling, validation, registry, regcall, runcall, rng, earlier, extraction, composition, files, persist>>

\* store.get_comments_by_negative_class(classification, n, random_sample)
GetCommentsByNegativeClass ==
    /\ store # None
    /\ \E classification \in NegativeClasses, n \in QueryNs, random_sample \in BOOLEAN :
          \E out \in get_comments_by_negative_class(store[1], classification, n,
                                                    random_sample) :
             /\ query' = Called("get_comments_by_negative_class",
                                [classification |-> classification, n |-> n,
                                 random_sample |-> random_sample], out)
             /\ store' = Some(out.store)
    /\ UNCHANGED <<bank, sampling, validation, registry, regcall, runcall, rng, earlier, extraction, composition, files, persist>>

\* store.get_available_labels(), get_available_negative_classes(),
\* get_label_counts(), get_negative_class_counts()
StoreListing ==
    /\ store # None
    /\ \E out \in {[op |-> "get_available_labels", ret |-> get_available_labels(store[1])],
                   [op |-> "get_available_negative_classes",
                    ret |-> get_available_negative_classes(store[1])],
                   [op |-> "get_label_counts", ret |-> get_label_counts(store[1])],
                   [op |-> "get_negative_class_counts",
                    ret |-> get_negative_class_counts(store[1])]} :
          query' = Called(out.op, <<>>, Answer(out.ret, store[1]))
    /\ UNCHANGED <<bank, sampling, validation, registry, regcall, runcall, rng, earlier, extraction, composition, files, persist, store>>

NextReadOnly ==
    \/ (store = None /\ BuildBank(CompRefs))
    \/ GetExcerpts
    \/ ListLabels
    \/ CountByLabel
    \/ SampleWith
    \/ SampleDone
    \/ NewDataStore
    \/ LoadStore(MaxLoads, 1, 1)
    \/ GetExcerptsByLabel
    \/ GetExcerptsByLabels
    \/ GetCommentsByNegativeClass
    \/ StoreListing
    \/ GetCooccurrenceMatrix

SpecReadOnly == Init /\ [][NextReadOnly]_vars

\* C21: no query operation and no sampling call changes the bank or the
\* store: across every call of ExcerptBank.get_excerpts, list_labels,
\* count_by_label, of the DataStore queries and of the sampling strategies,
\* the labels, the classifications and the contents and order of every bucket
\* stay as they were, also when the label or classification looked up is not
\* present (no empty bucket is created).  Only a load changes the store.
C21_QueriesReadOnly ==
    [][/\ (bank # None => bank' = bank)
       /\ ((store # None /\ store' # store) =>
              (query' # query /\ query'.op = "load_from_extraction_results"))]_vars

\* A loaded store was asked for a label it does not hold and answered with
\* an empty list.
C21_Witness ==
    /\ query.op = "get_excerpts_by_label"
    /\ store[1].label_index # <<>>
    /\ query.args.label \notin Range(Keys(store[1].label_index))
    /\ query.error = "none" /\ query.ret = <<>>

====
